---- MODULE Spec2Model ----
(***************************************************************************)
(* A model of the openHAB JavaScript helper libraries: the `when` trigger  *)
(* expression parser and its trigger builders (core/triggers.js), the      *)
(* `rule` decorator (core/rules.js) and `validate_uid` (core/utils.js).    *)
(*                                                                         *)
(* JavaScript strings are TLA+ strings; a JavaScript value that can be     *)
(* null is NULL (the empty tuple) or <<v>>.                                *)
(***************************************************************************)
EXTENDS Integers, Sequences, FiniteSets, TLC

VARIABLES
    itemRegistry,   \* names of the Items the host's ItemRegistry holds
    hasQuartz,      \* whether org.quartz.CronExpression could be loaded
    uuidCount,      \* number of UUIDs java.util.UUID.randomUUID() has handed out
    uidIn,          \* validate_uid: the argument of the call under study
    uidOut,         \* validate_uid: its result (NULL before the call)
    uidOut2,        \* validate_uid applied to uidOut (NULL before the call)
    expr,           \* when: the expression of the last call (NULL before any)
    whenResult,     \* when: "none", "returned" (a builder) or "thrown"
    builder,        \* when: the closure the last call returned (NULL if none)
    warned,         \* when: the message given to LOG.warn by the last call
    errored,        \* when: whether the last call gave a stack trace to LOG.error
    triggers,       \* per function object: its .triggers attribute
    applyResult,    \* builder application: "none", "returned" or "thrown"
    UID,            \* per function object: its .UID attribute
    rules,          \* the rules handed to automationManager.addRule, in order
    decorator,      \* the decorator rule(name, ...) returned last: its name variable
    ruleResult,     \* decorator(f): "none", "object" (f returned) or "null"
    lastOp,         \* the operation the last step performed
    provider,       \* the Items handed to ManagedItemProvider.add, by name
    metadata,       \* MetadataRegistry: per namespace of the Item, its Metadata or NULL
    returned,       \* items / utils / metadata call: its outcome (NULL before any)
    parser,         \* when: the variables of the parse loop in progress (NULL if none)
    REGISTERED_SERVICES,  \* osgi: the module's table of registered services
    bundleContext,  \* osgi: the ServiceRegistrations the bundle context holds
    registrationCount     \* osgi: registerService calls the bundle context has served

\* the state of the items, utils and metadata libraries, and of the parse
\* loop observed iteration by iteration
osgiVars == <<REGISTERED_SERVICES, bundleContext, registrationCount>>

libVars == <<provider, metadata, returned, parser, osgiVars>>

vars == <<itemRegistry, hasQuartz, uuidCount, uidIn, uidOut, uidOut2, expr,
          whenResult, builder, warned, errored, triggers, applyResult, UID, rules,
          decorator, ruleResult, lastOp, libVars>>

-----------------------------------------------------------------------------
(* Bounds of the model *)

\* longest string handed to validate_uid in SpecUid
MaxUidLen == 3
\* UUIDs the host hands out before the model stops calling validate_uid
MaxUuid == 7
\* longest .triggers list a function accumulates before the next application
MaxTriggers == 3
\* rules the scripts register before the model stops decorating
MaxRules == 2
\* registerService calls before the model stops registering services
MaxRegistrations == 3

-----------------------------------------------------------------------------
(* JavaScript values and strings *)

NULL == <<>>

Some(v) == <<v>>

\* the value held by a non-null Option
Val(o) == o[1]

\* String(v) / string concatenation of a possibly-null value
Str(o) == IF o = NULL THEN "null" ELSE o[1]

Char(s, i) == SubSeq(s, i, i)

Letters ==
    {"a","b","c","d","e","f","g","h","i","j","k","l","m","n","o","p","q","r",
     "s","t","u","v","w","x","y","z","A","B","C","D","E","F","G","H","I","J",
     "K","L","M","N","O","P","Q","R","S","T","U","V","W","X","Y","Z"}

Digits == {"0","1","2","3","4","5","6","7","8","9"}

\* the character class [A-Za-z0-9_-]
UidChars == Letters \cup Digits \cup {"_", "-"}

\* the character class [A-Za-z0-9]
AlnumChars == Letters \cup Digits

\* index of the first character of s at or after i that satisfies no class
\* member, 0 when there is none: String.prototype.match(/[^A-Za-z0-9_-]/)
RECURSIVE FirstBad(_, _)
FirstBad(s, i) ==
    IF i > Len(s) THEN 0
    ELSE IF Char(s, i) \notin UidChars THEN i
    ELSE FirstBad(s, i + 1)

\* index of the first "__" of s at or after i, 0 when there is none
RECURSIVE FirstRun(_, _)
FirstRun(s, i) ==
    IF i + 1 > Len(s) THEN 0
    ELSE IF Char(s, i) = "_" /\ Char(s, i + 1) = "_" THEN i
    ELSE FirstRun(s, i + 1)

\* index of the last character of the run of "_" that contains position i
RECURSIVE RunEnd(_, _)
RunEnd(s, i) ==
    IF i + 1 <= Len(s) /\ Char(s, i + 1) = "_" THEN RunEnd(s, i + 1) ELSE i

\* while (uid.match(/[^A-Za-z0-9_-]/)) uid = uid.replace(/[^A-Za-z0-9_-]/, "_")
RECURSIVE ReplaceInvalid(_)
ReplaceInvalid(s) ==
    LET i == FirstBad(s, 1)
    IN  IF i = 0 THEN s
        ELSE ReplaceInvalid(SubSeq(s, 1, i - 1) \o "_" \o SubSeq(s, i + 1, Len(s)))

\* while (uid.match(/__+/)) uid = uid.replace(/__+/, "_")
RECURSIVE CollapseUnderscores(_)
CollapseUnderscores(s) ==
    LET i == FirstRun(s, 1)
    IN  IF i = 0 THEN s
        ELSE CollapseUnderscores(
                 SubSeq(s, 1, i - 1) \o "_" \o SubSeq(s, RunEnd(s, i) + 1, Len(s)))

HexDigit(n) ==
    <<"0","1","2","3","4","5","6","7","8","9","a","b","c","d","e","f">>[(n % 16) + 1]

\* UUID.randomUUID().toString() of the n-th UUID handed out: hexadecimal
\* digits and hyphens, of one fixed length, different for different n.  The
\* canonical 8-4-4-4-12 form is shortened to 2-2.
randomUUID(n) == HexDigit(n \div 16) \o HexDigit(n) \o "-4" \o HexDigit(n + 7)

\* !uid of JavaScript: null, undefined and "" are falsy
Falsy(o) == o = NULL \/ o[1] = ""

\* a || b of JavaScript on possibly-null strings
OrElse(a, b) == IF Falsy(a) THEN b ELSE a

\* validate_uid without the "javascript" prefix for an id that does not start
\* with a letter or digit
validate_uidNoPrefix(uid, n) ==
    CollapseUnderscores(IF Falsy(uid) THEN randomUUID(n)
                        ELSE ReplaceInvalid(Val(uid)) \o randomUUID(n))

\* validate_uid that appends the UUID only to an id it had to generate
validate_uidNoSuffix(uid, n) ==
    LET cleaned == IF Falsy(uid) THEN randomUUID(n) ELSE ReplaceInvalid(Val(uid))
    IN  CollapseUnderscores(IF Char(cleaned, 1) \in AlnumChars THEN cleaned
                            ELSE "javascript" \o cleaned)

\* validate_uid(uid), drawing the UUID numbered n
validate_uid(uid, n) ==
    LET suffixed == IF Falsy(uid) THEN randomUUID(n)
                    ELSE ReplaceInvalid(Val(uid)) \o randomUUID(n)
        prefixed == IF Len(suffixed) > 0 /\ Char(suffixed, 1) \in AlnumChars
                    THEN suffixed
                    ELSE "javascript" \o suffixed
    IN  CollapseUnderscores(prefixed)

-----------------------------------------------------------------------------
(* The host: Item registry, Thing registry, TypeParser, quartz *)

\* the Items the host may define, in the order the registry iterates them
ItemOrder == <<"Lamp", "gIn", "Door", "gAll", "gNone">>

ItemNames == {ItemOrder[i] : i \in 1..Len(ItemOrder)}

\* Item.type
ItemType(name) ==
    CASE name = "Lamp" -> "Switch"
      [] name = "Door" -> "Contact"
      [] OTHER -> "Group"

\* the groups an Item is a direct member of
ItemGroups(name) ==
    CASE name = "Lamp" -> {"gAll"}
      [] name = "gIn" -> {"gAll"}
      [] name = "Door" -> {"gIn"}
      [] OTHER -> {}

\* the strings TypeParser.parseState accepts for Item.acceptedDataTypes
AcceptedStates(name) ==
    CASE name = "Door" -> {"OPEN", "CLOSED"}
      [] name = "gIn" -> {"OPEN", "CLOSED"}
      [] OTHER -> {"ON", "OFF"}

\* the strings TypeParser.parseCommand accepts for Item.acceptedCommandTypes
AcceptedCommands(name) ==
    CASE name = "Door" -> {"REFRESH"}
      [] name = "gIn" -> {"REFRESH"}
      [] OTHER -> {"ON", "OFF", "REFRESH"}

\* GroupItem.getMembers(): the direct members
getMembers(reg, g) == {m \in reg : g \in ItemGroups(m)}

\* GroupItem.getAllMembers(): the members of g and, recursively, of the groups
\* it contains; the contained groups themselves are not returned
RECURSIVE getAllMembers(_, _)
getAllMembers(reg, g) ==
    LET direct == getMembers(reg, g)
    IN  {m \in direct : ItemType(m) # "Group"}
        \cup UNION {getAllMembers(reg, m) : m \in {x \in direct : ItemType(x) = "Group"}}

\* Java.from(set): the Items of a set as an array, in registry order
RECURSIVE FromSet(_, _)
FromSet(set, i) ==
    IF i > Len(ItemOrder) THEN <<>>
    ELSE (IF ItemOrder[i] \in set THEN <<ItemOrder[i]>> ELSE <<>>) \o FromSet(set, i + 1)

\* the Things of the ThingRegistry
Things == {"hue:lamp1"}

\* the Channels of the ThingRegistry and their ChannelKind
Channels == {"astro:sun:home:rise#event", "astro:sun:home:position#azimuth"}

ChannelKind(uid) ==
    IF uid = "astro:sun:home:rise#event" THEN "TRIGGER" ELSE "STATE"

\* number of ":" in s
RECURSIVE Colons(_, _)
Colons(s, i) ==
    IF i > Len(s) THEN 0
    ELSE (IF Char(s, i) = ":" THEN 1 ELSE 0) + Colons(s, i + 1)

\* new ThingUID(s) succeeds: the host's UID has at least two segments
IsThingUID(s) == Colons(s, 1) >= 1

\* new ChannelUID(s) succeeds: the host's UID has at least four segments
IsChannelUID(s) == Colons(s, 1) >= 3

\* the members of the Java enum ThingStatus
ThingStatusValues ==
    {"UNINITIALIZED", "INITIALIZING", "UNKNOWN", "ONLINE", "OFFLINE", "REMOVING", "REMOVED"}

\* ThingStatus.<property> of the script engine: the enum member of that name,
\* NULL (undefined) when the Java type has no member of that name
ThingStatusProperty(property) ==
    IF property \in ThingStatusValues THEN Some(property) ELSE NULL

\* the cron expressions org.quartz.CronExpression.isValidExpression accepts
ValidCron == {"55 55 5 * * ?", "0 0/5 * * * ?", "0  0 12 * * ?"}

\* isValidExpression: quartz's when it was loaded, else function() { return true; }
isValidExpression(quartz, cron) == IF quartz THEN cron \in ValidCron ELSE TRUE

-----------------------------------------------------------------------------
(* when(expr): the tokenizer and the parse loop *)

\* String.prototype.split(" ") from position i, cur being the token in progress
RECURSIVE SplitFrom(_, _, _)
SplitFrom(s, i, cur) ==
    IF i > Len(s) THEN <<cur>>
    ELSE IF Char(s, i) = " " THEN <<cur>> \o SplitFrom(s, i + 1, "")
    ELSE SplitFrom(s, i + 1, cur \o Char(s, i))

\* expr.split(" ")
split(s) == SplitFrom(s, 1, "")

\* Array.prototype.join(sep)
RECURSIVE join(_, _)
join(list, sep) ==
    IF Len(list) = 0 THEN ""
    ELSE IF Len(list) = 1 THEN list[1]
    ELSE list[1] \o sep \o join(Tail(list), sep)

\* Array.prototype.slice(0, n)
slice(list, n) == SubSeq(list, 1, IF n < Len(list) THEN n ELSE Len(list))

\* what Array.prototype.splice(0, n) leaves in the array
dropped(list, n) == SubSeq(list, (IF n < Len(list) THEN n ELSE Len(list)) + 1, Len(list))

\* String.prototype.replace(" ", "-"): the first space only
RECURSIVE ReplaceFirstSpace(_, _)
ReplaceFirstSpace(s, i) ==
    IF i > Len(s) THEN s
    ELSE IF Char(s, i) = " "
         THEN SubSeq(s, 1, i - 1) \o "-" \o SubSeq(s, i + 1, Len(s))
         ELSE ReplaceFirstSpace(s, i + 1)

LifecycleTypes == {"added", "removed", "modified"}

\* the variables of a when() call before the parse loop starts
InitialParseState(e) ==
    [input_list |-> split(e), target_type |-> NULL, trigger_target |-> NULL,
     trigger_type |-> NULL, old_state |-> NULL, new_state |-> NULL,
     error |-> NULL]

\* throw RangeError(message)
Raise(ps, message) == [ps EXCEPT !.error = Some(message)]

CouldNotBeParsed(e) == "when: '" \o e \o "' could not be parsed. "

\* the branch of the loop body taken while target_type === null
TargetTypePhase(ps) ==
    IF join(slice(ps.input_list, 2), " ") \in {"Member of", "Descendent of"}
    THEN [ps EXCEPT !.target_type = Some(join(slice(ps.input_list, 2), " ")),
                    !.input_list = dropped(ps.input_list, 2)]
    ELSE [ps EXCEPT !.target_type = Some(join(slice(ps.input_list, 1), "")),
                    !.input_list = dropped(ps.input_list, 1)]

\* the trigger_target branch without the case of an Item or Thing with one
\* remaining token: the token is always consumed
TriggerTargetPhaseAlwaysConsumes(ps) ==
    IF ps.target_type = Some("System") /\ Len(ps.input_list) > 1
       /\ join(slice(ps.input_list, 2), " ") = "shuts down"
    THEN [ps EXCEPT !.trigger_target = Some(join(slice(ps.input_list, 2), " ")),
                    !.input_list = dropped(ps.input_list, 2)]
    ELSE [ps EXCEPT !.trigger_target = Some(join(slice(ps.input_list, 1), "")),
                    !.input_list = dropped(ps.input_list, 1)]

\* the trigger_target branch whose case of an Item or Thing with one
\* remaining token assigns nothing: the iteration changes no variable
TriggerTargetPhaseAssignsNothing(ps) ==
    IF ps.target_type = Some("System") /\ Len(ps.input_list) > 1
    THEN IF join(slice(ps.input_list, 2), " ") = "shuts down"
         THEN [ps EXCEPT !.trigger_target = Some(join(slice(ps.input_list, 2), " ")),
                         !.input_list = dropped(ps.input_list, 2)]
         ELSE [ps EXCEPT !.trigger_target = Some(join(slice(ps.input_list, 1), "")),
                         !.input_list = dropped(ps.input_list, 1)]
    ELSE IF ps.target_type \in {Some("Item"), Some("Thing")} /\ Len(ps.input_list) = 1
         THEN ps
         ELSE [ps EXCEPT !.trigger_target = Some(join(slice(ps.input_list, 1), "")),
                         !.input_list = dropped(ps.input_list, 1)]

\* the branch of the loop body taken while trigger_target === null
TriggerTargetPhase(ps) ==
    IF ps.target_type = Some("System") /\ Len(ps.input_list) > 1
    THEN IF join(slice(ps.input_list, 2), " ") = "shuts down"
         THEN [ps EXCEPT !.trigger_target = Some(join(slice(ps.input_list, 2), " ")),
                         !.input_list = dropped(ps.input_list, 2)]
         ELSE [ps EXCEPT !.trigger_target = Some(join(slice(ps.input_list, 1), "")),
                         !.input_list = dropped(ps.input_list, 1)]
    ELSE IF ps.target_type \in {Some("Item"), Some("Thing")} /\ Len(ps.input_list) = 1
         THEN [ps EXCEPT !.trigger_target = Some("")]
         ELSE [ps EXCEPT !.trigger_target = Some(join(slice(ps.input_list, 1), "")),
                         !.input_list = dropped(ps.input_list, 1)]

\* trigger_type taken from the first token alone: input_list.splice(0, 1)
TakeTriggerTypeOneToken(ps, n, sep) ==
    [ps EXCEPT !.trigger_type = Some(join(slice(ps.input_list, 1), sep)),
               !.input_list = dropped(ps.input_list, 1)]

\* trigger_type = input_list.splice(0, n).join(sep)
TakeTriggerType(ps, n, sep) ==
    [ps EXCEPT !.trigger_type = Some(join(slice(ps.input_list, n), sep)),
               !.input_list = dropped(ps.input_list, n)]

\* the branch of the loop body taken while trigger_type === null
TriggerTypePhase(e, ps, quartz) ==
    LET two == join(slice(ps.input_list, 2), " ")
        first == ps.input_list[1]
        tt == ps.target_type
    IN  IF two = "received update"
        THEN IF tt \in {Some("Item"), Some("Thing"), Some("Member of"), Some("Descendent of")}
             THEN TakeTriggerType(ps, 2, " ")
             ELSE Raise(ps, CouldNotBeParsed(e)
                            \o "'received update' is invalid for target_type '"
                            \o Str(ps.trigger_type) \o "'")
        ELSE IF two = "received command"
        THEN IF tt \in {Some("Item"), Some("Member of"), Some("Descendent of")}
             THEN TakeTriggerType(ps, 2, " ")
             ELSE Raise(ps, CouldNotBeParsed(e)
                            \o "'received command' is invalid for target_type '"
                            \o Str(tt) \o "'")
        ELSE IF first = "changed"
        THEN IF tt \in {Some("Item"), Some("Thing"), Some("Member of"), Some("Descendent of")}
             THEN TakeTriggerType(ps, 1, "")
             ELSE Raise(ps, CouldNotBeParsed(e)
                            \o "'changed' is invalid for target_type '" \o Str(tt) \o "'")
        ELSE IF first = "triggered"
        THEN IF tt = Some("Channel")
             THEN TakeTriggerType(ps, 1, "")
             ELSE Raise(ps, CouldNotBeParsed(e)
                            \o "'triggered' is invalid for target_type '" \o Str(tt) \o "'")
        ELSE IF ps.trigger_target = Some("cron")
        THEN IF tt = Some("Time")
             THEN LET taken == TakeTriggerType(ps, Len(ps.input_list), " ")
                  IN  IF isValidExpression(quartz, Val(taken.trigger_type))
                      THEN taken
                      ELSE Raise(taken, CouldNotBeParsed(e) \o "'" \o Val(taken.trigger_type)
                                        \o "' is not a valid cron expression. See "
                                        \o "http://www.quartz-scheduler.org/documentation/quartz-2.1.x/tutorials/tutorial-lesson-06")
             ELSE Raise(ps, CouldNotBeParsed(e)
                            \o "'cron' is invalid for target_type '" \o Str(tt) \o "'")
        ELSE IF first \in LifecycleTypes
        THEN IF tt \in {Some("Item"), Some("Thing")}
             THEN TakeTriggerType(ps, 1, "")
             ELSE Raise(ps, CouldNotBeParsed(e) \o "'" \o first
                            \o "' is invalid for target_type '" \o Str(tt) \o "'")
        ELSE Raise(ps, "when: '" \o e \o "' could not be parsed because the trigger_type "
                       \o "'" \o first \o "' is invalid")

\* the qualifier branch without its last case: tokens that fit no slot are
\* dropped instead of raising the RangeError
QualifierPhaseDropsLeftover(e, ps) ==
    LET first == ps.input_list[1]
        rest == dropped(ps.input_list, 1)
    IN  IF ps.old_state = NULL /\ ps.trigger_type = Some("changed") /\ first = "from"
        THEN [ps EXCEPT !.old_state = Some(join(slice(rest, 1), "")),
                        !.input_list = dropped(rest, 1)]
        ELSE IF ps.new_state = NULL /\ ps.trigger_type = Some("changed") /\ first = "to"
        THEN [ps EXCEPT !.new_state = Some(join(slice(rest, 1), "")),
                        !.input_list = dropped(rest, 1)]
        ELSE IF ps.new_state = NULL
                /\ (ps.trigger_type \in {Some("received update"), Some("received command")}
                    \/ ps.target_type = Some("Channel"))
        THEN [ps EXCEPT !.new_state = Some(first), !.input_list = rest]
        ELSE [ps EXCEPT !.input_list = <<>>]

\* the qualifier branch without the tests old_state === null and
\* new_state === null: a repeated from, to or value is assigned again
QualifierPhaseAssignsAgain(e, ps) ==
    LET first == ps.input_list[1]
        rest == dropped(ps.input_list, 1)
    IN  IF ps.trigger_type = Some("changed") /\ first = "from"
        THEN [ps EXCEPT !.old_state = Some(join(slice(rest, 1), "")),
                        !.input_list = dropped(rest, 1)]
        ELSE IF ps.trigger_type = Some("changed") /\ first = "to"
        THEN [ps EXCEPT !.new_state = Some(join(slice(rest, 1), "")),
                        !.input_list = dropped(rest, 1)]
        ELSE IF \/ ps.trigger_type \in {Some("received update"), Some("received command")}
                \/ ps.target_type = Some("Channel")
        THEN [ps EXCEPT !.new_state = Some(first), !.input_list = rest]
        ELSE Raise(ps, CouldNotBeParsed(e) \o "'" \o join(ps.input_list, " ")
                       \o "' is invalid")

\* the branch of the loop body taken once trigger_type is set
QualifierPhase(e, ps) ==
    LET first == ps.input_list[1]
        rest == dropped(ps.input_list, 1)
    IN  IF ps.old_state = NULL /\ ps.trigger_type = Some("changed") /\ first = "from"
        THEN [ps EXCEPT !.old_state = Some(join(slice(rest, 1), "")),
                        !.input_list = dropped(rest, 1)]
        ELSE IF ps.new_state = NULL /\ ps.trigger_type = Some("changed") /\ first = "to"
        THEN [ps EXCEPT !.new_state = Some(join(slice(rest, 1), "")),
                        !.input_list = dropped(rest, 1)]
        ELSE IF ps.new_state = NULL
                /\ ps.trigger_type \in {Some("received update"), Some("received command")}
        THEN [ps EXCEPT !.new_state = Some(first), !.input_list = rest]
        ELSE IF ps.new_state = NULL /\ ps.target_type = Some("Channel")
        THEN [ps EXCEPT !.new_state = Some(first), !.input_list = rest]
        ELSE Raise(ps, CouldNotBeParsed(e) \o "'" \o join(ps.input_list, " ")
                       \o "' is invalid for '" \o Str(ps.target_type) \o " "
                       \o Str(ps.trigger_target) \o " " \o Str(ps.trigger_type) \o "'")

\* one iteration of while (input_list.length)
ParseStep(e, ps, quartz) ==
    IF ps.target_type = NULL THEN TargetTypePhase(ps)
    ELSE IF ps.trigger_target = NULL THEN TriggerTargetPhase(ps)
    ELSE IF ps.trigger_type = NULL THEN TriggerTypePhase(e, ps, quartz)
    ELSE QualifierPhase(e, ps)

\* the loop: iterate until the list is empty or an iteration throws
RECURSIVE ParseLoop(_, _, _)
ParseLoop(e, ps, quartz) ==
    IF Len(ps.input_list) = 0 \/ ps.error # NULL THEN ps
    ELSE ParseLoop(e, ParseStep(e, ps, quartz), quartz)

\* the else branch with trigger_type "received update" in place of "changed"
SingleWordReceivedUpdate(e) ==
    [InitialParseState(e) EXCEPT !.target_type = Some("Item"),
                                 !.trigger_target = Some(e),
                                 !.trigger_type = Some("received update")]

\* the else branch: a simple Item target was used (just an item name)
SingleWord(e) ==
    [InitialParseState(e) EXCEPT !.target_type = Some("Item"),
                                 !.trigger_target = Some(e),
                                 !.trigger_type = Some("changed")]

\* the variables of a when() call when validation starts
Parse(e, quartz) ==
    IF Len(split(e)) > 1 THEN ParseLoop(e, InitialParseState(e), quartz)
    ELSE SingleWord(e)

-----------------------------------------------------------------------------
(* when(expr): validation of the parsed inputs *)

\* the outcome of the validation: nothing thrown
Passed == [kind |-> "ok", message |-> ""]

\* throw RangeError(message)
RangeError(message) == [kind |-> "RangeError", message |-> message]

\* a Java exception thrown by the host while a condition is evaluated
JavaException(name) == [kind |-> "JavaException", message |-> name]

ValidTargetTypes ==
    {"Item", "Member of", "Descendent of", "Thing", "Channel", "System", "Time", "Item Event"}

\* itemRegistry.getItems(pattern) === []: a collection compared by identity
\* with a freshly created array, whatever the collection holds
getItemsIsNewArray(reg, pattern) == FALSE

\* itemRegistry.getItem(name) throws ItemNotFoundException
ItemNotFound(reg, name) == name \notin reg

\* the state test written as the command test is: parseState(..) !== null
parseStateIsNotNull(name, s) == s \in AcceptedStates(name)

\* TypeParser.parseState(item.acceptedDataTypes, s) === null
parseStateIsNull(name, s) == s \notin AcceptedStates(name)

\* TypeParser.parseCommand(item.acceptedCommandTypes, s) === null
parseCommandIsNull(name, s) == s \notin AcceptedCommands(name)

\* a lookup in the Thing registry whose result is compared by identity with a
\* freshly created value, as the Item lookup is
thingsGetIsNewValue(uid) == FALSE

\* things.get(new ThingUID(uid)) === null: the registry holds no such Thing
thingsGetIsNull(uid) == uid \notin Things

\* a kind test that never rejects a Channel
channelKindNotCompared(uid) == FALSE

\* things.getChannel(new ChannelUID(uid)).kind !== ChannelKind.TRIGGER
channelIsNotTrigger(uid) == ChannelKind(uid) # "TRIGGER"

\* a type test that never rejects an Item
itemTypeNotCompared(name) == FALSE

\* itemRegistry.getItem(name).type !== "Group"
itemIsNotGroup(name) == ItemType(name) # "Group"

\* the System test with the line that is commented out in the source in force:
\* trigger_target !== "started" && trigger_target != "shuts down"
systemTargetOrShutsDown(trigger_target) ==
    trigger_target \notin {Some("started"), Some("shuts down")}

\* trigger_target !== "started"
systemTargetIsInvalid(trigger_target) == trigger_target # Some("started")

\* the if / else if chain that validates the inputs
Validate(e, ps, reg) ==
    LET tt == ps.target_type
        target == Str(ps.trigger_target)
        nonLifecycle == ps.trigger_type \notin {Some(t) : t \in LifecycleTypes}
        isItem == tt = Some("Item") /\ nonLifecycle
        isThing == tt = Some("Thing") /\ nonLifecycle
        isGroupTarget == tt \in {Some("Member of"), Some("Descendent of")}
        because == "when: '" \o e \o "' could not be parsed because "
    IN  IF tt = NULL \/ Val(tt) \notin ValidTargetTypes
        THEN RangeError(CouldNotBeParsed(e)
                 \o "target_type is missing or invalid. Valid target_type values are: "
                 \o "Item, Member of, Descendent of, Thing, Channel, System, and Time.")
        ELSE IF tt # Some("System") /\ nonLifecycle /\ ps.trigger_type = NULL
        THEN RangeError("when: '" \o e
                        \o "' could not be parsed because trigger_type cannot be null")
        ELSE IF tt \in {Some("Item"), Some("Member of"), Some("Descendent of")}
                /\ nonLifecycle /\ getItemsIsNewArray(reg, target)
        THEN RangeError(because \o "Item '" \o target \o "' is not in the ItemRegistry")
        ELSE IF isGroupTarget /\ ItemNotFound(reg, target)
        THEN JavaException("ItemNotFoundException")
        ELSE IF isGroupTarget /\ itemIsNotGroup(target)
        THEN RangeError(because \o "'" \o Val(tt) \o "' was specified, but '"
                        \o target \o "' is not a group")
        ELSE IF isItem /\ ps.old_state # NULL /\ ps.trigger_type = Some("changed")
                /\ ItemNotFound(reg, target)
        THEN JavaException("ItemNotFoundException")
        ELSE IF isItem /\ ps.old_state # NULL /\ ps.trigger_type = Some("changed")
                /\ parseStateIsNull(target, Val(ps.old_state))
        THEN RangeError(because \o "'" \o Val(ps.old_state)
                        \o "' is not a valid state for '" \o target \o "'")
        ELSE IF isItem /\ ps.new_state # NULL
                /\ ps.trigger_type \in {Some("changed"), Some("received update")}
                /\ ItemNotFound(reg, target)
        THEN JavaException("ItemNotFoundException")
        ELSE IF isItem /\ ps.new_state # NULL
                /\ ps.trigger_type \in {Some("changed"), Some("received update")}
                /\ parseStateIsNull(target, Val(ps.new_state))
        THEN RangeError(because \o "'" \o Val(ps.new_state)
                        \o "' is not a valid state for '" \o target \o "'")
        ELSE IF isItem /\ ps.new_state # NULL /\ ps.trigger_type = Some("received command")
                /\ ItemNotFound(reg, target)
        THEN JavaException("ItemNotFoundException")
        ELSE IF isItem /\ ps.new_state # NULL /\ ps.trigger_type = Some("received command")
                /\ ~parseCommandIsNull(target, Val(ps.new_state))
        THEN RangeError(because \o "'" \o Val(ps.new_state)
                        \o "' is not a valid command for '" \o target \o "'")
        ELSE IF isThing /\ ~IsThingUID(target)
        THEN JavaException("IllegalArgumentException")
        ELSE IF isThing /\ thingsGetIsNull(target)
        THEN RangeError(because \o "Thing '" \o target \o "' is not in the ThingRegistry")
        ELSE IF isThing /\ ps.old_state # NULL /\ ThingStatusProperty("old_state") = NULL
        THEN RangeError("when: '" \o Val(ps.old_state) \o "' is not a valid Thing status")
        ELSE IF isThing /\ ps.new_state # NULL /\ ThingStatusProperty("new_state") = NULL
        THEN RangeError("when: '" \o Val(ps.new_state) \o "' is not a valid Thing status")
        ELSE IF tt = Some("Channel") /\ ~IsChannelUID(target)
        THEN JavaException("IllegalArgumentException")
        ELSE IF tt = Some("Channel") /\ target \notin Channels
        THEN RangeError(because \o "Channel '" \o target \o "' does not exist")
        ELSE IF tt = Some("Channel") /\ channelIsNotTrigger(target)
        THEN RangeError(because \o "'" \o target \o "' is not a trigger Channel")
        ELSE IF tt = Some("System") /\ systemTargetIsInvalid(ps.trigger_target)
        THEN RangeError(CouldNotBeParsed(e) \o "trigger_target '" \o target
                        \o "' is invalid for target_type 'System'. "
                        \o "The only valid trigger_type value is 'started'")
        ELSE Passed

\* the builder function when() returns for the validated inputs
Dispatch(ps) ==
    LET tt == Val(ps.target_type)
        lifecycle == ps.trigger_type \in {Some(t) : t \in LifecycleTypes}
    IN  IF tt \in {"Item", "Member of", "Descendent of"}
        THEN IF lifecycle THEN "item_event_trigger" ELSE "item_trigger"
        ELSE IF tt = "Thing"
        THEN IF lifecycle THEN "thing_event_trigger" ELSE "thing_trigger"
        ELSE IF tt = "Channel" THEN "channel_trigger"
        ELSE IF tt = "System" THEN "system_trigger"
        ELSE IF tt = "Time" THEN "cron_trigger"
        ELSE "undefined"

\* the closure when() returns: the builder function and the variables it closes over
Closure(kind, ps, trigger_name) ==
    [kind |-> kind, target_type |-> ps.target_type, trigger_target |-> ps.trigger_target,
     trigger_type |-> ps.trigger_type, trigger_name |-> trigger_name,
     old_state |-> ps.old_state, new_state |-> ps.new_state]

\* a catch block without the instanceof test: every error is logged as a
\* warning and bad_trigger returned
CaughtAsRangeError(ps, error) ==
    [result |-> "returned", builder |-> Closure("bad_trigger", ps, NULL),
     warned |-> Some(error.message), errored |-> FALSE, uuids |-> 0]

\* catch (e): a RangeError is logged as a warning and bad_trigger returned; any
\* other error is logged as an error and Error(...) thrown
Caught(ps, error) ==
    IF error.kind = "RangeError"
    THEN [result |-> "returned", builder |-> Closure("bad_trigger", ps, NULL),
          warned |-> Some(error.message), errored |-> FALSE, uuids |-> 0]
    ELSE [result |-> "thrown", builder |-> NULL, warned |-> NULL, errored |-> TRUE,
          uuids |-> 0]

\* when(expr) with the registry reg, drawing UUIDs from number n on
when(e, reg, quartz, n) ==
    LET ps == Parse(e, quartz)
        checked == IF ps.error # NULL THEN RangeError(Val(ps.error)) ELSE Validate(e, ps, reg)
    IN  IF checked.kind # "ok" THEN Caught(ps, checked)
        ELSE [result |-> "returned",
              builder |-> Closure(Dispatch(ps), ps, Some(validate_uid(OrElse(NULL, Some(e)), n))),
              warned |-> NULL, errored |-> FALSE, uuids |-> 1]

-----------------------------------------------------------------------------
(* The trigger builders: each returns the Trigger module it builds.  n is the *)
(* number of the UUID its validate_uid call draws.                           *)

\* configuration.put(key, value) unless value is null
PutUnlessNull(key, value) == IF value # NULL THEN key :> Val(value) ELSE <<>>

\* TriggerBuilder.create().withId(..).withTypeUID(..).withConfiguration(..).build()
Trigger(id, typeUID, configuration) ==
    [id |-> id, typeUID |-> typeUID, configuration |-> configuration]

\* startlevel 20 is rules
StartLevelRules == 20

ItemStateUpdateTrigger(item_name, state, trigger_name, n) ==
    Trigger(validate_uid(trigger_name, n), "core.ItemStateUpdateTrigger",
            ("itemName" :> item_name) @@ PutUnlessNull("state", state))

\* ItemStateChangeTrigger with the two states put under each other's key
ItemStateChangeTriggerSwapped(item_name, previous_state, state, trigger_name, n) ==
    Trigger(validate_uid(trigger_name, n), "core.ItemStateChangeTrigger",
            ("itemName" :> item_name) @@ PutUnlessNull("previousState", state)
                @@ PutUnlessNull("state", previous_state))

ItemStateChangeTrigger(item_name, previous_state, state, trigger_name, n) ==
    Trigger(validate_uid(trigger_name, n), "core.ItemStateChangeTrigger",
            ("itemName" :> item_name) @@ PutUnlessNull("previousState", previous_state)
                @@ PutUnlessNull("state", state))

ItemCommandTrigger(item_name, command, trigger_name, n) ==
    Trigger(validate_uid(trigger_name, n), "core.ItemCommandTrigger",
            ("itemName" :> item_name) @@ PutUnlessNull("command", command))

ThingStatusUpdateTrigger(thing_uid, status, trigger_name, n) ==
    Trigger(validate_uid(trigger_name, n), "core.ThingStatusUpdateTrigger",
            ("thingUID" :> thing_uid) @@ PutUnlessNull("status", status))

ThingStatusChangeTrigger(thing_uid, previous_status, status, trigger_name, n) ==
    Trigger(validate_uid(trigger_name, n), "core.ThingStatusChangeTrigger",
            ("thingUID" :> thing_uid) @@ PutUnlessNull("previousStatus", previous_status)
                @@ PutUnlessNull("status", status))

ChannelEventTrigger(channel_uid, event, trigger_name, n) ==
    Trigger(validate_uid(trigger_name, n), "core.ChannelEventTrigger",
            ("channelUID" :> channel_uid) @@ PutUnlessNull("event", event))

GenericEventTrigger(event_source, event_types, trigger_name, n) ==
    Trigger(validate_uid(trigger_name, n), "core.GenericEventTrigger",
            ("eventTopic" :> "openhab/*")
                @@ ("eventSource" :> ("openhab/" \o event_source \o "/"))
                @@ ("eventTypes" :> event_types))

ItemEventTrigger(event_types, item_name, trigger_name, n) ==
    GenericEventTrigger("items" \o (IF Falsy(item_name) THEN "" ELSE "/" \o Val(item_name)),
                        event_types, trigger_name, n)

ThingEventTrigger(event_types, thing_uid, trigger_name, n) ==
    GenericEventTrigger("things" \o (IF Falsy(thing_uid) THEN "" ELSE "/" \o Val(thing_uid)),
                        event_types, trigger_name, n)

CronTrigger(cron_expression, trigger_name, n) ==
    Trigger(validate_uid(trigger_name, n), "timer.GenericCronTrigger",
            "cronExpression" :> cron_expression)

StartupTrigger(trigger_name, n) ==
    Trigger(validate_uid(trigger_name, n), "core.SystemStartlevelTrigger",
            "startlevel" :> StartLevelRules)

-----------------------------------------------------------------------------
(* The builder functions when() returns.  Each takes the closure b, the      *)
(* .triggers attribute of the function it is applied to, and the number n of *)
(* the next UUID; it gives the new attribute, the closure's trigger_name,    *)
(* the UUIDs drawn, and whether the application threw.                       *)

\* add_trigger that assigns a new one-element array: func.triggers = [trigger]
add_triggerReplaces(func_triggers, trigger) == Some(<<trigger>>)

\* add_trigger(func, trigger)
add_trigger(func_triggers, trigger) ==
    IF func_triggers = NULL THEN Some(<<trigger>>)
    ELSE Some(Append(Val(func_triggers), trigger))

Applied(func_triggers, trigger_name, uuids) ==
    [thrown |-> FALSE, triggers |-> func_triggers, trigger_name |-> trigger_name,
     uuids |-> uuids]

\* the application threw before anything was attached
Threw(func_triggers, trigger_name) ==
    [thrown |-> TRUE, triggers |-> func_triggers, trigger_name |-> trigger_name,
     uuids |-> 0]

\* the name item_trigger derives for the trigger of one member
ItemTriggerName(b, member) ==
    "Item-" \o member \o "-" \o ReplaceFirstSpace(Val(b.trigger_type), 1)
    \o (IF b.old_state # NULL THEN "-from-" \o Val(b.old_state) ELSE "")
    \o (IF b.new_state # NULL /\ b.trigger_type = Some("changed") THEN "-to-" ELSE "")
    \o (IF b.new_state # NULL /\ b.trigger_type = Some("received update") THEN "-" ELSE "")
    \o (IF b.new_state # NULL THEN Val(b.new_state) ELSE "")

\* the forEach body with the received command branch building the trigger of
\* the received update branch
ItemTriggerForCommandAsUpdate(b, member, n) ==
    LET trigger_name == Some(validate_uid(Some(ItemTriggerName(b, member)), n))
    IN  IF b.trigger_type \in {Some("received update"), Some("received command")}
        THEN ItemStateUpdateTrigger(member, b.new_state, trigger_name, n + 1)
        ELSE ItemStateChangeTrigger(member, b.old_state, b.new_state, trigger_name, n + 1)

\* the body of group_members.forEach for one member
ItemTriggerFor(b, member, n) ==
    LET trigger_name == Some(validate_uid(Some(ItemTriggerName(b, member)), n))
    IN  IF b.trigger_type = Some("received update")
        THEN ItemStateUpdateTrigger(member, b.new_state, trigger_name, n + 1)
        ELSE IF b.trigger_type = Some("received command")
        THEN ItemCommandTrigger(member, b.new_state, trigger_name, n + 1)
        ELSE ItemStateChangeTrigger(member, b.old_state, b.new_state, trigger_name, n + 1)

\* group_members.forEach(...)
RECURSIVE ItemTriggerLoop(_, _, _, _, _)
ItemTriggerLoop(b, group_members, func_triggers, trigger_name, n) ==
    IF Len(group_members) = 0 THEN Applied(func_triggers, trigger_name, n)
    ELSE LET trigger == ItemTriggerFor(b, Head(group_members), n)
         IN  ItemTriggerLoop(b, Tail(group_members), add_trigger(func_triggers, trigger),
                             Some(validate_uid(Some(ItemTriggerName(b, Head(group_members))), n)),
                             n + 2)

\* item_trigger that resolves "Descendent of" with getMembers, as "Member of"
item_triggerDirectMembers(b, reg, func_triggers, n) ==
    IF ItemNotFound(reg, Val(b.trigger_target)) THEN Threw(func_triggers, b.trigger_name)
    ELSE LET group_members ==
                 IF b.target_type \in {Some("Member of"), Some("Descendent of")}
                 THEN FromSet(getMembers(reg, Val(b.trigger_target)), 1)
                 ELSE <<Val(b.trigger_target)>>
             done == ItemTriggerLoop(b, group_members, func_triggers, b.trigger_name, n)
         IN  [done EXCEPT !.uuids = done.uuids - n]

item_trigger(b, reg, func_triggers, n) ==
    IF ItemNotFound(reg, Val(b.trigger_target)) THEN Threw(func_triggers, b.trigger_name)
    ELSE LET group_members ==
                 IF b.target_type = Some("Member of")
                 THEN FromSet(getMembers(reg, Val(b.trigger_target)), 1)
                 ELSE IF b.target_type = Some("Descendent of")
                 THEN FromSet(getAllMembers(reg, Val(b.trigger_target)), 1)
                 ELSE <<Val(b.trigger_target)>>
             done == ItemTriggerLoop(b, group_members, func_triggers, b.trigger_name, n)
         IN  [done EXCEPT !.uuids = done.uuids - n]

ItemEventNames(trigger_type) ==
    CASE trigger_type = "added" -> "ItemAddedEvent"
      [] trigger_type = "removed" -> "ItemRemovedEvent"
      [] trigger_type = "modified" -> "ItemUpdatedEvent"

item_event_trigger(b, reg, func_triggers, n) ==
    Applied(add_trigger(func_triggers,
                        ItemEventTrigger(ItemEventNames(Val(b.trigger_type)),
                                         OrElse(b.trigger_target, NULL), b.trigger_name, n)),
            b.trigger_name, 1)

cron_trigger(b, reg, func_triggers, n) ==
    Applied(add_trigger(func_triggers, CronTrigger(Val(b.trigger_type), b.trigger_name, n)),
            b.trigger_name, 1)

system_trigger(b, reg, func_triggers, n) ==
    Applied(add_trigger(func_triggers, StartupTrigger(b.trigger_name, n)),
            b.trigger_name, 1)

thing_trigger(b, reg, func_triggers, n) ==
    LET trigger ==
            IF b.new_state # NULL \/ b.old_state # NULL
            THEN IF b.trigger_type = Some("changed")
                 THEN ThingStatusChangeTrigger(Val(b.trigger_target), b.old_state,
                                               b.new_state, b.trigger_name, n)
                 ELSE ThingStatusUpdateTrigger(Val(b.trigger_target), b.new_state,
                                               b.trigger_name, n)
            ELSE ThingEventTrigger(IF b.trigger_type = Some("changed")
                                   THEN "ThingStatusInfoChangedEvent"
                                   ELSE "ThingStatusInfoEvent",
                                   b.trigger_target, b.trigger_name, n)
    IN  Applied(add_trigger(func_triggers, trigger), b.trigger_name, 1)

ThingEventNames(trigger_type) ==
    CASE trigger_type = "added" -> "ThingAddedEvent"
      [] trigger_type = "removed" -> "ThingRemovedEvent"
      [] trigger_type = "modified" -> "ThingUpdatedEvent"

thing_event_trigger(b, reg, func_triggers, n) ==
    Applied(add_trigger(func_triggers,
                        ThingEventTrigger(ThingEventNames(Val(b.trigger_type)),
                                          OrElse(b.trigger_target, NULL), b.trigger_name, n)),
            b.trigger_name, 1)

channel_trigger(b, reg, func_triggers, n) ==
    Applied(add_trigger(func_triggers,
                        ChannelEventTrigger(Val(b.trigger_target), b.new_state,
                                            b.trigger_name, n)),
            b.trigger_name, 1)

\* bad_trigger that returns the function as it is, attaching nothing
bad_triggerAttachesNothing(b, reg, func_triggers, n) ==
    Applied(func_triggers, b.trigger_name, 0)

bad_trigger(b, reg, func_triggers, n) ==
    Applied(add_trigger(func_triggers, NULL), b.trigger_name, 0)

\* the call builder(func) of the closure b
ApplyBuilder(b, reg, func_triggers, n) ==
    CASE b.kind = "item_trigger" -> item_trigger(b, reg, func_triggers, n)
      [] b.kind = "item_event_trigger" -> item_event_trigger(b, reg, func_triggers, n)
      [] b.kind = "cron_trigger" -> cron_trigger(b, reg, func_triggers, n)
      [] b.kind = "system_trigger" -> system_trigger(b, reg, func_triggers, n)
      [] b.kind = "thing_trigger" -> thing_trigger(b, reg, func_triggers, n)
      [] b.kind = "thing_event_trigger" -> thing_event_trigger(b, reg, func_triggers, n)
      [] b.kind = "channel_trigger" -> channel_trigger(b, reg, func_triggers, n)
      [] b.kind = "bad_trigger" -> bad_trigger(b, reg, func_triggers, n)

-----------------------------------------------------------------------------
(* rule(name, description, tags, visible) and the decorator it returns *)

\* the function objects of the script, by their .name
Funcs == {"f", "g"}

\* function_rule(callback, triggers, name, ...): the SimpleRule it builds
function_rule(callback, func_triggers, name) ==
    [name |-> Val(OrElse(name, OrElse(Some(callback), Some("JSR223-JavaScript")))),
     callback |-> callback, triggers |-> func_triggers]

\* the test of decorator(object): .triggers is a non-empty array
HasTriggers(func_triggers) == func_triggers # NULL /\ Len(Val(func_triggers)) > 0

\* object.triggers.indexOf(null) > 0: a null at the front is not seen
ContainsNullAfterFirst(func_triggers) ==
    \E i \in 2..Len(Val(func_triggers)) : Val(func_triggers)[i] = NULL

\* ~object.triggers.indexOf(null)
ContainsNull(func_triggers) ==
    \E i \in 1..Len(Val(func_triggers)) : Val(func_triggers)[i] = NULL

\* the UID automationManager.addRule gives the k-th rule it is handed
RuleUID(k) == "rule-" \o HexDigit(k)

-----------------------------------------------------------------------------
(* The items and utils libraries: add_item and validate_channel_uid *)

\* the outcome of a library call that returned value, and what it logged
LibReturned(value, logged) == [result |-> "returned", value |-> value, logged |-> logged]

\* the outcome of a library call that threw the error to its caller
LibThrown(error) == [result |-> "thrown", value |-> Some(error), logged |-> NULL]

\* the Item types the host's ItemBuilderFactory has an ItemFactory for
ItemTypes == {"Switch", "Group"}

\* ItemBuilderFactory.newItemBuilder(item_type, item_name) throws
\* IllegalArgumentException: no ItemFactory supports the type
newItemBuilderThrows(item_type) == item_type \notin ItemTypes

\* the Item the builder chain of add_item builds
BuiltItem(item_name, item_type, gi_base_type) ==
    [name |-> item_name, type |-> item_type,
     baseItem |-> IF item_type # "Group" \/ Falsy(gi_base_type) THEN NULL ELSE gi_base_type]

\* ManagedItemProvider.add(item) throws IllegalArgumentException: the provider
\* already holds an element of that name
providerAddThrows(prov, item) == \E held \in prov : held.name = item.name

\* add_item(item_or_item_name, item_type, .., gi_base_type, ..) with the
\* provider prov: the provider after the call and the outcome of the call.
\* Every error raised in the try block is caught, logged and turned into null.
add_item(item_or_item_name, item_type, gi_base_type, prov) ==
    LET isString == item_or_item_name.kind = "string"
        caught(error) == [provider |-> prov, outcome |-> LibReturned(NULL, Some(error))]
    IN  IF ~isString /\ item_or_item_name.kind # "Item"
        THEN caught("TypeError")
        ELSE IF isString /\ Falsy(item_type)
        THEN caught("TypeError")
        ELSE IF /\ isString
                /\ Val(item_type) = "Group"
                /\ ~Falsy(gi_base_type)
                /\ newItemBuilderThrows(Val(gi_base_type))
        THEN caught("IllegalArgumentException")
        ELSE IF isString /\ newItemBuilderThrows(Val(item_type))
        THEN caught("IllegalArgumentException")
        ELSE LET item == IF isString
                         THEN BuiltItem(item_or_item_name.name, Val(item_type), gi_base_type)
                         ELSE item_or_item_name.item
             IN  IF providerAddThrows(prov, item)
                 THEN caught("IllegalArgumentException")
                 ELSE [provider |-> prov \cup {item},
                       outcome |-> LibReturned(Some(item), NULL)]

\* things.getChannel(channel_uid) is truthy: the registry holds the Channel
thingsGetChannel(uid) == uid \in Channels

\* validate_channel_uid(channel_uid_or_string): new ChannelUID(..) throws to
\* the caller for a malformed string; null is returned, after a warning, for
\* an argument of another type and when things.getChannel(..) is truthy
validate_channel_uid(channel_uid_or_string) ==
    LET kind == channel_uid_or_string.kind
        uid == channel_uid_or_string.uid
    IN  IF kind = "string" /\ ~IsChannelUID(uid)
        THEN LibThrown("IllegalArgumentException")
        ELSE IF kind \notin {"string", "ChannelUID"}
        THEN LibReturned(NULL, Some("'" \o uid \o "' is not a string or ChannelUID"))
        ELSE IF thingsGetChannel(uid)
        THEN LibReturned(NULL, Some("'" \o uid \o "' is not a valid channel"))
        ELSE LibReturned(Some(uid), NULL)

-----------------------------------------------------------------------------
(* The metadata library.  The registry is that of one Item: a function from  *)
(* namespace to NULL or the Metadata [value, configuration] it holds.  A     *)
(* configuration is a function from its keys to their values.  The           *)
(* configuration argument of a call is [kind, entries], kind "object" for a  *)
(* JavaScript object and "map" for a java.util.Map.                          *)

\* the namespaces of the model
Namespaces == {"ns1", "ns2"}

\* the empty MetadataRegistry
NoMetadata == [ns \in Namespaces |-> NULL]

\* x.forEach(function (key, value) {..}) can be called: java.util.Map has the
\* method, a JavaScript object has no property forEach
hasForEach(configuration) == configuration.kind = "map"

\* merge_configuration(metadata_configuration, new_configuration): the
\* entries of the first overlaid with those of the second; NULL stands for
\* the TypeError of calling forEach on an object that has none
merge_configuration(metadata_configuration, new_configuration) ==
    IF ~hasForEach(metadata_configuration) \/ ~hasForEach(new_configuration)
    THEN NULL
    ELSE LET old == metadata_configuration.entries
             new == new_configuration.entries
         IN  Some([kind |-> "object",
                   entries |-> [key \in DOMAIN old \cup DOMAIN new |->
                                   IF key \in DOMAIN new THEN new[key] ELSE old[key]]])

\* get_metadata(item_name, namespace): MetadataRegistry.get(..)
get_metadata(registry, namespace) == registry[namespace]

\* remove_metadata(item_name, namespace): the namespace, or every namespace
\* of the Item when the argument is omitted or empty
remove_metadata(registry, namespace) ==
    IF ~Falsy(namespace)
    THEN [registry EXCEPT ![Val(namespace)] = NULL]
    ELSE NoMetadata

\* new Metadata(new MetadataKey(namespace, item_name), value, configuration)
Metadata(value, configuration) ==
    [value |-> value, configuration |-> configuration.entries]

\* set_metadata(item_name, namespace, configuration, value, overwrite): the
\* registry after the call and the outcome of the call
set_metadata(registry, namespace, configuration, value, overwrite) ==
    LET removed == IF overwrite THEN remove_metadata(registry, Some(namespace)) ELSE registry
        held == get_metadata(removed, namespace)
    IN  IF held = NULL \/ overwrite
        THEN [metadata |-> [removed EXCEPT ![namespace] = Some(Metadata(value, configuration))],
              outcome |-> LibReturned(NULL, NULL)]
        ELSE LET new_value == IF value = NULL THEN Val(held).value ELSE value
                 new_configuration ==
                     merge_configuration([kind |-> "map", entries |-> Val(held).configuration],
                                         configuration)
             IN  IF new_configuration = NULL
                 THEN [metadata |-> removed, outcome |-> LibThrown("TypeError")]
                 ELSE [metadata |-> [removed EXCEPT ![namespace] =
                                        Some(Metadata(new_value, Val(new_configuration)))],
                       outcome |-> LibReturned(NULL, NULL)]

-----------------------------------------------------------------------------
(* The osgi library: register_service and unregister_service.  The bundle    *)
(* context is present (the scripts run inside the openHAB bundle).            *)

\* var REGISTERED_SERVICES = {}: a JavaScript object without entries
NoServices == [kind |-> "object", entries |-> <<>>]

\* x.set(key, value) can be called: a JavaScript object has no property set
hasSet(table) == table.kind = "map"

\* the Hashtable built by properties.forEach(function (value, key) {
\* properties_map.put(key, value) }) from a java.util.Map, whose forEach hands
\* the callback the key first: each entry is put with its value as the key
\* (of two entries with the same value one is kept)
properties_map(properties) ==
    [v \in {properties.entries[k] : k \in DOMAIN properties.entries} |->
        CHOOSE k \in DOMAIN properties.entries : properties.entries[k] = v]

\* BUNDLE_CONTEXT.registerService(interface_names, service, properties): the
\* ServiceRegistration it returns, n registrations having been made before
registerService(interface_names, service, properties, n) ==
    [id |-> n + 1, service |-> service, interface_names |-> interface_names,
     properties |-> properties]

\* interface_names.forEach(function (name) { REGISTERED_SERVICES.set(name,
\* {service: .., registered_service: ..}) }) on a table that has set
RECURSIVE SetEach(_, _, _)
SetEach(entries, interface_names, record) ==
    IF Len(interface_names) = 0 THEN entries
    ELSE SetEach((Head(interface_names) :> record) @@ entries, Tail(interface_names), record)

\* register_service(service, interface_names, properties): the table, the
\* bundle context's registrations and the outcome of the call
register_service(service, interface_names, properties, table, context, n) ==
    IF properties # NULL /\ ~hasForEach(Val(properties))
    THEN [table |-> table, context |-> context, count |-> n,
          outcome |-> LibThrown("TypeError")]
    ELSE LET registered_service ==
                 registerService(interface_names, service,
                                 IF properties = NULL THEN properties
                                 ELSE Some(properties_map(Val(properties))), n)
             record == [service |-> service, registered_service |-> registered_service]
         IN  IF Len(interface_names) > 0 /\ ~hasSet(table)
             THEN [table |-> table, context |-> context \cup {registered_service},
                   count |-> n + 1, outcome |-> LibThrown("TypeError")]
             ELSE [table |-> [table EXCEPT !.entries = SetEach(@, interface_names, record)],
                   context |-> context \cup {registered_service}, count |-> n + 1,
                   outcome |-> LibReturned(Some(registered_service), NULL)]

\* unregister_service(service): REGISTERED_SERVICES.forEach(function (key,
\* value) {..}); a table that has forEach hands the callback the value first,
\* so value is the interface name, value.service is undefined and no entry
\* matches
unregister_service(service, table, context) ==
    IF ~hasForEach(table)
    THEN [table |-> table, context |-> context, outcome |-> LibThrown("TypeError")]
    ELSE [table |-> table, context |-> context, outcome |-> LibReturned(NULL, NULL)]

-----------------------------------------------------------------------------
(* The state machine *)

NoOp == [op |-> "none", arg |-> ""]

InitCommon ==
    /\ itemRegistry = ItemNames
    /\ uuidCount = 0
    /\ uidOut = NULL
    /\ uidOut2 = NULL
    /\ expr = NULL
    /\ whenResult = "none"
    /\ builder = NULL
    /\ warned = NULL
    /\ errored = FALSE
    /\ triggers = [fn \in Funcs |-> NULL]
    /\ applyResult = "none"
    /\ UID = [fn \in Funcs |-> NULL]
    /\ rules = <<>>
    /\ decorator = NULL
    /\ ruleResult = "none"
    /\ lastOp = NoOp
    /\ provider = {}
    /\ metadata = NoMetadata
    /\ returned = NULL
    /\ parser = NULL
    /\ REGISTERED_SERVICES = NoServices
    /\ bundleContext = {}
    /\ registrationCount = 0

Init ==
    /\ InitCommon
    /\ hasQuartz \in BOOLEAN
    /\ uidIn = NULL

\* a script calls when(e)
WhenCall(e) ==
    \E r \in {when(e, itemRegistry, hasQuartz, uuidCount)} :
        /\ uuidCount + r.uuids <= MaxUuid
        /\ expr' = Some(e)
        /\ whenResult' = r.result
        /\ builder' = r.builder
        /\ warned' = r.warned
        /\ errored' = r.errored
        /\ uuidCount' = uuidCount + r.uuids
        /\ applyResult' = "none"
        /\ ruleResult' = "none"
        /\ lastOp' = [op |-> "when", arg |-> e]
        /\ UNCHANGED libVars
        /\ UNCHANGED <<itemRegistry, hasQuartz, uidIn, uidOut, uidOut2, triggers, UID,
                       rules, decorator>>

\* a script calls when(e, name): the function is declared with the one
\* parameter expr, so a second argument is bound to nothing and trigger_name
\* starts as null whatever was passed
WhenCallNamed(e, name) ==
    \E r \in {when(e, itemRegistry, hasQuartz, uuidCount)} :
        /\ uuidCount + r.uuids <= MaxUuid
        /\ expr' = Some(e)
        /\ whenResult' = r.result
        /\ builder' = r.builder
        /\ warned' = r.warned
        /\ errored' = r.errored
        /\ uuidCount' = uuidCount + r.uuids
        /\ applyResult' = "none"
        /\ ruleResult' = "none"
        /\ lastOp' = [op |-> "when", arg |-> e, name |-> name]
        /\ UNCHANGED libVars
        /\ UNCHANGED <<itemRegistry, hasQuartz, uidIn, uidOut, uidOut2, triggers, UID,
                       rules, decorator>>

\* an application that resolves the target in the registry as it was when
\* when() validated the expression, not as it is now
ApplyToValidatedRegistry(fn) ==
    /\ whenResult = "returned"
    /\ (IF triggers[fn] = NULL THEN 0 ELSE Len(Val(triggers[fn]))) < MaxTriggers
    /\ \E r \in {ApplyBuilder(builder, ItemNames, triggers[fn], uuidCount)} :
           /\ uuidCount + r.uuids <= MaxUuid
           /\ triggers' = [triggers EXCEPT ![fn] = r.triggers]
           /\ builder' = [builder EXCEPT !.trigger_name = r.trigger_name]
           /\ uuidCount' = uuidCount + r.uuids
           /\ applyResult' = IF r.thrown THEN "thrown" ELSE "returned"
    /\ ruleResult' = "none"
    /\ lastOp' = [op |-> "apply", arg |-> fn]
    /\ UNCHANGED libVars
    /\ UNCHANGED <<itemRegistry, hasQuartz, uidIn, uidOut, uidOut2, expr, whenResult,
                   warned, errored, UID, rules, decorator>>

\* a script applies the builder the last when() returned to the function fn
Apply(fn) ==
    /\ whenResult = "returned"
    /\ (IF triggers[fn] = NULL THEN 0 ELSE Len(Val(triggers[fn]))) < MaxTriggers
    /\ \E r \in {ApplyBuilder(builder, itemRegistry, triggers[fn], uuidCount)} :
           /\ uuidCount + r.uuids <= MaxUuid
           /\ triggers' = [triggers EXCEPT ![fn] = r.triggers]
           /\ builder' = [builder EXCEPT !.trigger_name = r.trigger_name]
           /\ uuidCount' = uuidCount + r.uuids
           /\ applyResult' = IF r.thrown THEN "thrown" ELSE "returned"
    /\ ruleResult' = "none"
    /\ lastOp' = [op |-> "apply", arg |-> fn]
    /\ UNCHANGED libVars
    /\ UNCHANGED <<itemRegistry, hasQuartz, uidIn, uidOut, uidOut2, expr, whenResult,
                   warned, errored, UID, rules, decorator>>

\* a script calls rule(name, description, tags, visible)
RuleCall(name) ==
    /\ decorator' = Some([name |-> name])
    /\ ruleResult' = "none"
    /\ lastOp' = [op |-> "rule", arg |-> Str(name)]
    /\ UNCHANGED libVars
    /\ UNCHANGED <<itemRegistry, hasQuartz, uuidCount, uidIn, uidOut, uidOut2, expr,
                   whenResult, builder, warned, errored, triggers, applyResult, UID,
                   rules>>

\* a decorator that sets object.triggers = null on every path, the failed
\* ones included
DecorateResetsTriggers(fn) ==
    /\ decorator # NULL
    /\ Len(rules) < MaxRules
    /\ LET name == OrElse(Val(decorator).name, Some(fn))
           registers == HasTriggers(triggers[fn]) /\ ~ContainsNull(triggers[fn])
       IN  /\ decorator' = Some([name |-> name])
           /\ triggers' = [triggers EXCEPT ![fn] = NULL]
           /\ IF registers
              THEN /\ rules' = Append(rules, function_rule(fn, Val(triggers[fn]), name))
                   /\ UID' = [UID EXCEPT ![fn] = Some(RuleUID(Len(rules) + 1))]
                   /\ ruleResult' = "object"
              ELSE /\ ruleResult' = "null"
                   /\ UNCHANGED <<rules, UID>>
    /\ lastOp' = [op |-> "decorate", arg |-> fn]
    /\ UNCHANGED libVars
    /\ UNCHANGED <<itemRegistry, hasQuartz, uuidCount, uidIn, uidOut, uidOut2, expr,
                   whenResult, builder, warned, errored, applyResult>>

\* a decorator whose successful path leaves object.triggers as it is
DecorateKeepsTriggers(fn) ==
    /\ decorator # NULL
    /\ Len(rules) < MaxRules
    /\ LET name == OrElse(Val(decorator).name, Some(fn))
           registers == HasTriggers(triggers[fn]) /\ ~ContainsNull(triggers[fn])
       IN  /\ decorator' = Some([name |-> name])
           /\ IF registers
              THEN /\ rules' = Append(rules, function_rule(fn, Val(triggers[fn]), name))
                   /\ UID' = [UID EXCEPT ![fn] = Some(RuleUID(Len(rules) + 1))]
                   /\ ruleResult' = "object"
                   /\ UNCHANGED triggers
              ELSE /\ ruleResult' = "null"
                   /\ UNCHANGED <<rules, UID, triggers>>
    /\ lastOp' = [op |-> "decorate", arg |-> fn]
    /\ UNCHANGED libVars
    /\ UNCHANGED <<itemRegistry, hasQuartz, uuidCount, uidIn, uidOut, uidOut2, expr,
                   whenResult, builder, warned, errored, applyResult>>

\* a script applies the decorator the last rule() returned to the function fn
Decorate(fn) ==
    /\ decorator # NULL
    /\ Len(rules) < MaxRules
    /\ LET name == OrElse(Val(decorator).name, Some(fn))
           registers == HasTriggers(triggers[fn]) /\ ~ContainsNull(triggers[fn])
       IN  /\ decorator' = Some([name |-> name])
           /\ IF registers
              THEN /\ rules' = Append(rules, function_rule(fn, Val(triggers[fn]), name))
                   /\ UID' = [UID EXCEPT ![fn] = Some(RuleUID(Len(rules) + 1))]
                   /\ triggers' = [triggers EXCEPT ![fn] = NULL]
                   /\ ruleResult' = "object"
              ELSE /\ ruleResult' = "null"
                   /\ UNCHANGED <<rules, UID, triggers>>
    /\ lastOp' = [op |-> "decorate", arg |-> fn]
    /\ UNCHANGED libVars
    /\ UNCHANGED <<itemRegistry, hasQuartz, uuidCount, uidIn, uidOut, uidOut2, expr,
                   whenResult, builder, warned, errored, applyResult>>

\* a script calls add_item(item_or_item_name, item_type, null, null, null,
\* null, gi_base_type)
AddItem(item_or_item_name, item_type, gi_base_type) ==
    \E r \in {add_item(item_or_item_name, item_type, gi_base_type, provider)} :
        /\ provider' = r.provider
        /\ returned' = r.outcome
        /\ lastOp' = [op |-> "add_item", arg |-> item_or_item_name, item_type |-> item_type]
        /\ UNCHANGED osgiVars
        /\ UNCHANGED <<metadata, parser>>
        /\ UNCHANGED <<itemRegistry, hasQuartz, uuidCount, uidIn, uidOut, uidOut2, expr,
                       whenResult, builder, warned, errored, triggers, applyResult, UID,
                       rules, decorator, ruleResult>>

\* a script calls validate_channel_uid(channel_uid_or_string)
ValidateChannelUid(channel_uid_or_string) ==
    /\ returned' = validate_channel_uid(channel_uid_or_string)
    /\ lastOp' = [op |-> "validate_channel_uid", arg |-> channel_uid_or_string]
    /\ UNCHANGED osgiVars
    /\ UNCHANGED <<provider, metadata, parser>>
    /\ UNCHANGED <<itemRegistry, hasQuartz, uuidCount, uidIn, uidOut, uidOut2, expr,
                   whenResult, builder, warned, errored, triggers, applyResult, UID,
                   rules, decorator, ruleResult>>

\* a script calls set_metadata(item_name, namespace, configuration, value,
\* overwrite)
SetMetadata(namespace, configuration, value, overwrite) ==
    \E r \in {set_metadata(metadata, namespace, configuration, value, overwrite)} :
        /\ metadata' = r.metadata
        /\ returned' = r.outcome
        /\ lastOp' = [op |-> "set_metadata", arg |-> namespace,
                      configuration |-> configuration, value |-> value,
                      overwrite |-> overwrite]
        /\ UNCHANGED osgiVars
        /\ UNCHANGED <<provider, parser>>
        /\ UNCHANGED <<itemRegistry, hasQuartz, uuidCount, uidIn, uidOut, uidOut2, expr,
                       whenResult, builder, warned, errored, triggers, applyResult, UID,
                       rules, decorator, ruleResult>>

\* a script calls remove_metadata(item_name, namespace)
RemoveMetadata(namespace) ==
    /\ metadata' = remove_metadata(metadata, namespace)
    /\ returned' = LibReturned(NULL, NULL)
    /\ lastOp' = [op |-> "remove_metadata", arg |-> Str(namespace)]
    /\ UNCHANGED osgiVars
    /\ UNCHANGED <<provider, parser>>
    /\ UNCHANGED <<itemRegistry, hasQuartz, uuidCount, uidIn, uidOut, uidOut2, expr,
                   whenResult, builder, warned, errored, triggers, applyResult, UID,
                   rules, decorator, ruleResult>>

\* a script calls register_service(service, interface_names, properties)
RegisterService(service, interface_names, properties) ==
    /\ registrationCount < MaxRegistrations
    /\ \E r \in {register_service(service, interface_names, properties,
                                  REGISTERED_SERVICES, bundleContext, registrationCount)} :
           /\ REGISTERED_SERVICES' = r.table
           /\ bundleContext' = r.context
           /\ registrationCount' = r.count
           /\ returned' = r.outcome
    /\ lastOp' = [op |-> "register_service", arg |-> service,
                  interface_names |-> interface_names, properties |-> properties]
    /\ UNCHANGED <<provider, metadata, parser>>
    /\ UNCHANGED <<itemRegistry, hasQuartz, uuidCount, uidIn, uidOut, uidOut2, expr,
                   whenResult, builder, warned, errored, triggers, applyResult, UID,
                   rules, decorator, ruleResult>>

\* a script calls unregister_service(service)
UnregisterService(service) ==
    /\ \E r \in {unregister_service(service, REGISTERED_SERVICES, bundleContext)} :
           /\ REGISTERED_SERVICES' = r.table
           /\ bundleContext' = r.context
           /\ returned' = r.outcome
    /\ lastOp' = [op |-> "unregister_service", arg |-> service]
    /\ UNCHANGED <<provider, metadata, parser, registrationCount>>
    /\ UNCHANGED <<itemRegistry, hasQuartz, uuidCount, uidIn, uidOut, uidOut2, expr,
                   whenResult, builder, warned, errored, triggers, applyResult, UID,
                   rules, decorator, ruleResult>>

\* when(e) is entered: the variables are declared and the expression is
\* split, or, for an expression of one token, the else branch fills the slots
EnterWhen(e) ==
    /\ parser = NULL
    /\ parser' = IF Len(split(e)) > 1 THEN InitialParseState(e) ELSE SingleWord(e)
    /\ expr' = Some(e)
    /\ lastOp' = [op |-> "enter", arg |-> e]
    /\ UNCHANGED osgiVars
    /\ UNCHANGED <<provider, metadata, returned>>
    /\ UNCHANGED <<itemRegistry, hasQuartz, uuidCount, uidIn, uidOut, uidOut2, whenResult,
                   builder, warned, errored, triggers, applyResult, UID, rules, decorator,
                   ruleResult>>

\* one iteration of the parse loop of the call in progress
LoopIteration ==
    /\ parser # NULL
    /\ Len(split(Val(expr))) > 1
    /\ Len(parser.input_list) > 0
    /\ parser.error = NULL
    /\ parser' = ParseStep(Val(expr), parser, hasQuartz)
    /\ lastOp' = [op |-> "iteration", arg |-> Val(expr)]
    /\ UNCHANGED osgiVars
    /\ UNCHANGED <<provider, metadata, returned>>
    /\ UNCHANGED <<itemRegistry, hasQuartz, uuidCount, uidIn, uidOut, uidOut2, expr,
                   whenResult, builder, warned, errored, triggers, applyResult, UID, rules,
                   decorator, ruleResult>>

\* the host removes the Item name from the ItemRegistry after when() returned
ItemRemoved(name) ==
    /\ whenResult = "returned"
    /\ name \in itemRegistry
    /\ itemRegistry' = itemRegistry \ {name}
    /\ lastOp' = [op |-> "removed", arg |-> name]
    /\ UNCHANGED libVars
    /\ UNCHANGED <<hasQuartz, uuidCount, uidIn, uidOut, uidOut2, expr, whenResult, builder,
                   warned, errored, triggers, applyResult, UID, rules, decorator,
                   ruleResult>>

\* the host adds the Item name to the ItemRegistry after when() returned
ItemAdded(name) ==
    /\ whenResult = "returned"
    /\ name \notin itemRegistry
    /\ itemRegistry' = itemRegistry \cup {name}
    /\ lastOp' = [op |-> "added", arg |-> name]
    /\ UNCHANGED libVars
    /\ UNCHANGED <<hasQuartz, uuidCount, uidIn, uidOut, uidOut2, expr, whenResult, builder,
                   warned, errored, triggers, applyResult, UID, rules, decorator,
                   ruleResult>>

-----------------------------------------------------------------------------
(* The expressions the scripts of the model hand to when() *)

ItemTargetTypes == {"Item", "Member of", "Descendent of"}

ItemTargets == {"Lamp", "Door", "gAll", "gNone", "Ghost", "cron"}

TriggerPhrases ==
    {"changed", "received update", "received command", "added", "removed", "modified",
     "triggered", "sometimes"}

ItemQualifiers ==
    {"", " from ON", " to OFF", " from ON to OFF", " to OFF from ON", " from OPEN to CLOSED",
     " ON", " OPEN", " BAD", " REFRESH", " from BAD to ON", " from ON to BAD", " from",
     " to", " from ON to", " ON OFF", " from ON to OFF now", " from ON from OFF"}

ItemExprs ==
    {tt \o " " \o target \o " " \o trigger \o qualifier :
        tt \in ItemTargetTypes, target \in ItemTargets, trigger \in TriggerPhrases,
        qualifier \in ItemQualifiers}

ThingTargets == {"hue:lamp1", "kodi:tv", "lamp"}

ThingQualifiers ==
    {"", " from ONLINE", " to OFFLINE", " from ONLINE to OFFLINE", " ONLINE", " BAD",
     " to BAD", " from", " ONLINE now"}

ThingExprs ==
    {"Thing " \o target \o " " \o trigger \o qualifier :
        target \in ThingTargets, trigger \in TriggerPhrases, qualifier \in ThingQualifiers}

ChannelTargets ==
    {"astro:sun:home:rise#event", "astro:sun:home:position#azimuth",
     "astro:sun:home:set#event", "rise"}

ChannelExprs ==
    {"Channel " \o target \o trigger \o qualifier :
        target \in ChannelTargets,
        trigger \in {"", " triggered", " changed", " received update", " added"},
        qualifier \in {"", " START", " START STOP"}}

CronExprs == ValidCron \cup {"0 0 12", "every day", "changed", "", " 0 0 12 * * ?"}

\* every trigger phrase after a System, Time and Channel target
KeywordExprs ==
    {prefix \o " " \o trigger :
        prefix \in {"System started", "Time cron", "Time noon",
                    "Channel astro:sun:home:rise#event"},
        trigger \in TriggerPhrases}

TimeExprs ==
    {"Time cron " \o cron : cron \in CronExprs}
    \cup {"Time cron", "Time noon changed", "Time noon 0 0 12 * * ?", "Item cron 0 0 12",
          "Thing cron added", "Channel cron 55 55 5 * * ?"}

SystemExprs ==
    {"System started", "System shuts down", "System started now", "System stopped",
     "System started changed", "System shuts down now", "System started added",
     "System  started", "System shuts"}

TwoWordExprs ==
    {a \o " " \o b :
        a \in {"Item", "Thing", "Channel", "Time", "Member", "Descendent", "House"},
        b \in {"added", "removed", "modified", "changed", "triggered", "Lamp", "of", ""}}

SingleWords ==
    {"Lamp", "Door", "gAll", "gNone", "Ghost", "", "added", "changed", "Item", "Thing",
     "System", "cron", "hue:lamp1", "My__Item", "_Lamp"}

OtherExprs ==
    {"Item  Lamp  changed", " Item Lamp changed", "Item Lamp changed ", "Item Lamp  changed",
     "item Lamp changed", "House Lamp changed", "Member of", "Descendent of gAll",
     "Member  of gAll changed", "Item Event Lamp changed"}

\* the expressions of Spec
Exprs ==
    ItemExprs \cup ThingExprs \cup ChannelExprs \cup TimeExprs \cup SystemExprs
    \cup TwoWordExprs \cup SingleWords \cup OtherExprs \cup KeywordExprs

\* the expressions of SpecRule
RuleExprs == {"Item Lamp changed", "Member of gAll received update", "Item Lamp sometimes"}

\* the alphabet of the strings handed to validate_uid in SpecUid
UidAlphabet == {"a", "Z", "7", "_", "-", " ", ":"}

\* the strings over UidAlphabet of length n
RECURSIVE StringsOfLen(_)
StringsOfLen(n) ==
    IF n = 0 THEN {""}
    ELSE {s \o c : s \in StringsOfLen(n - 1), c \in UidAlphabet}

\* the arguments of validate_uid in SpecUid: no argument, or a string
UidInputs == {NULL} \cup {Some(s) : s \in UNION {StringsOfLen(n) : n \in 0..MaxUidLen}}

-----------------------------------------------------------------------------
(* Specifications *)

\* one when() call and the applications of the builder it returned
Next ==
    \/ /\ whenResult = "none"
       /\ \E e \in Exprs : WhenCall(e)
    \/ Apply("f")

Spec == Init /\ [][Next]_vars

\* scripts that call when(), apply builders and decorate functions in any order
NextRule ==
    \/ \E e \in RuleExprs : WhenCall(e)
    \/ Apply("f")
    \/ \E name \in {NULL, Some("night")} : RuleCall(name)
    \/ Decorate("f")

\* the scripts of SpecRule run where quartz is present
InitRule ==
    /\ InitCommon
    /\ hasQuartz = TRUE
    /\ uidIn = NULL

SpecRule == InitRule /\ [][NextRule]_vars

\* scripts that share decorators obtained from rule() with no arguments
\* between the functions f and g
NextShared ==
    \/ \E e \in {"Item Lamp changed"} : WhenCall(e)
    \/ \E fn \in Funcs : Apply(fn)
    \/ RuleCall(NULL)
    \/ \E fn \in Funcs : Decorate(fn)

SpecShared == InitRule /\ [][NextShared]_vars

\* the trigger names the scripts of SpecNamed pass as second argument
TriggerNames == {"MyTrigger", "night light", "Item_Lamp_changed"}

\* the expressions of SpecNamed
NamedExprs == TimeExprs \cup SystemExprs \cup ChannelExprs \cup RuleExprs

\* one call when(e, name) and the applications of the builder it returned
NextNamed ==
    \/ /\ whenResult = "none"
       /\ \E e \in NamedExprs, name \in TriggerNames : WhenCallNamed(e, name)
    \/ Apply("f")

SpecNamed == Init /\ [][NextNamed]_vars

\* the state before any call of the items, utils and metadata libraries
InitLib ==
    /\ InitCommon
    /\ hasQuartz = TRUE
    /\ uidIn = NULL

\* the first arguments the scripts of SpecItems hand to add_item: a name, an
\* Item object, or a value that is neither
ItemArguments ==
    {[kind |-> "string", name |-> n] : n \in {"Porch", "gHall"}}
    \cup {[kind |-> "Item", item |-> [name |-> "Attic", type |-> "Switch", baseItem |-> NULL]],
          [kind |-> "number"], [kind |-> "null"]}

\* the item_type and gi_base_type arguments of SpecItems
ItemTypeArguments == {NULL, Some(""), Some("Switch"), Some("Group"), Some("Bogus")}

\* the arguments the scripts of SpecItems hand to validate_channel_uid
ChannelArguments ==
    {[kind |-> k, uid |-> uid] : k \in {"string", "ChannelUID"},
                                 uid \in Channels \cup {"astro:sun:home:set#event"}}
    \cup {[kind |-> "string", uid |-> "rise"], [kind |-> "number", uid |-> "42"]}

\* scripts that add Items and validate ChannelUIDs in any order
NextItems ==
    \/ \E a \in ItemArguments, t \in ItemTypeArguments, g \in {NULL, Some("Switch"), Some("Bogus")} :
           AddItem(a, t, g)
    \/ \E c \in ChannelArguments : ValidateChannelUid(c)

SpecItems == InitLib /\ [][NextItems]_vars

\* the configurations the scripts of SpecMeta hand in, as key-value entries
ConfigEntries ==
    {[key \in {} |-> "1"], [key \in {"a"} |-> "1"], [key \in {"b"} |-> "1"],
     [key \in {"a", "b"} |-> "2"]}

\* the configuration arguments of SpecMeta: JavaScript objects and Java maps
ConfigArguments ==
    {[kind |-> k, entries |-> c] : k \in {"object", "map"}, c \in ConfigEntries}

\* the value arguments of SpecMeta: omitted, or a string
ValueArguments == {NULL, Some("v1")}

\* scripts that set and remove the metadata of one Item in any order
NextMeta ==
    \/ \E ns \in Namespaces, c \in ConfigArguments, v \in ValueArguments, o \in BOOLEAN :
           SetMetadata(ns, c, v, o)
    \/ \E ns \in {NULL} \cup {Some(n) : n \in Namespaces} : RemoveMetadata(ns)

SpecMeta == InitLib /\ [][NextMeta]_vars

\* one when() call observed iteration by iteration of its parse loop
NextParse ==
    \/ \E e \in Exprs : EnterWhen(e)
    \/ LoopIteration

SpecParse == Init /\ [][NextParse]_vars

\* the services the scripts of SpecOsgi register
Services == {"s1", "s2"}

\* the interface name lists the scripts of SpecOsgi hand in
InterfaceNameLists == {<<>>, <<"A">>, <<"A", "B">>}

\* the properties arguments of SpecOsgi: omitted, a JavaScript object, a Java map
PropertiesArguments ==
    {NULL} \cup {Some([kind |-> k, entries |-> [key \in {"p"} |-> "1"]]) : k \in {"object", "map"}}

\* scripts that register and unregister services in any order
NextOsgi ==
    \/ \E service \in Services, interface_names \in InterfaceNameLists,
          properties \in PropertiesArguments :
           RegisterService(service, interface_names, properties)
    \/ \E service \in Services : UnregisterService(service)

SpecOsgi == InitLib /\ [][NextOsgi]_vars

\* the expressions of SpecRegistry
RegistryExprs ==
    {"Item Lamp changed", "Item gAll received update", "Member of gAll changed",
     "Descendent of gAll received update", "Member of gIn changed to OPEN",
     "Member of gNone changed", "Item Door", "Item Lamp sometimes", "Item added"}

\* the Items the host removes and adds again in SpecRegistry
ChangingItems == {"Lamp", "Door", "gAll"}

\* one when() call, then applications of its builder while the host changes
\* the ItemRegistry
NextRegistry ==
    \/ /\ whenResult = "none"
       /\ \E e \in RegistryExprs : WhenCall(e)
    \/ \E name \in ChangingItems : ItemRemoved(name)
    \/ \E name \in ChangingItems : ItemAdded(name)
    \/ Apply("f")

SpecRegistry == InitLib /\ [][NextRegistry]_vars

\* the parse loop is synchronous code: once entered it keeps iterating while
\* an iteration is possible (the loop does not read the scheduler's presence)
FairSpecParse == InitLib /\ [][NextParse]_vars /\ WF_vars(LoopIteration)

\* validate_uid(uid)
ValidateUid ==
    /\ uidOut = NULL
    /\ uidOut' = Some(validate_uid(uidIn, uuidCount))
    /\ uuidCount' = uuidCount + 1
    /\ lastOp' = [op |-> "validate_uid", arg |-> Str(uidIn)]
    /\ UNCHANGED libVars
    /\ UNCHANGED <<itemRegistry, hasQuartz, uidIn, uidOut2, expr, whenResult, builder,
                   warned, errored, triggers, applyResult, UID, rules, decorator,
                   ruleResult>>

\* validate_uid(validate_uid(uid))
ValidateUidAgain ==
    /\ uidOut # NULL
    /\ uidOut2 = NULL
    /\ uidOut2' = Some(validate_uid(uidOut, uuidCount))
    /\ uuidCount' = uuidCount + 1
    /\ lastOp' = [op |-> "validate_uid", arg |-> Str(uidOut)]
    /\ UNCHANGED libVars
    /\ UNCHANGED <<itemRegistry, hasQuartz, uidIn, uidOut, expr, whenResult, builder,
                   warned, errored, triggers, applyResult, UID, rules, decorator,
                   ruleResult>>

InitUid ==
    /\ InitCommon
    /\ hasQuartz = TRUE
    /\ uidIn \in UidInputs

NextUid == ValidateUid \/ ValidateUidAgain

SpecUid == InitUid /\ [][NextUid]_vars

-----------------------------------------------------------------------------
(* Properties *)

\* the triggers list of the function f, empty while the attribute is null
Attached == IF triggers["f"] = NULL THEN <<>> ELSE Val(triggers["f"])

\* the step is an application of the builder to f
ApplyStep == lastOp'.op = "apply"

\* the step leaves the entries f already had as they were, in their order
KeepsEarlier == SubSeq(Attached', 1, Len(Attached)) = Attached

\* the step appends exactly one entry to the triggers list of f
AppendsOne == Len(Attached') = Len(Attached) + 1 /\ KeepsEarlier

\* the last entry of the triggers list of f
Last == Attached[Len(Attached)]

\* the expression e makes when() throw a RangeError, in the parse loop or in
\* the validation that follows it
RaisesRangeError(e) ==
    LET ps == Parse(e, hasQuartz)
    IN  IF ps.error # NULL THEN TRUE
        ELSE Validate(e, ps, itemRegistry).kind = "RangeError"

C2_NullMarkerBlocksRule ==
    [][(/\ lastOp'.op = "decorate"
        /\ triggers["f"] # NULL
        /\ \E i \in 1..Len(Attached) : Attached[i] = NULL)
        => /\ rules' = rules
           /\ UID' = UID
           /\ ruleResult' = "null"]_vars

\* C2 witness: f was decorated with a real trigger followed by a null marker
\* attached; the decorator returned null and no rule exists.
C2_Witness ==
    /\ lastOp.op = "decorate"
    /\ ruleResult = "null"
    /\ Len(Attached) = 2
    /\ Attached[1] # NULL
    /\ Attached[2] = NULL
    /\ rules = <<>>
    /\ UID["f"] = NULL

\* the string holds no space
NoSpace(s) == \A i \in 1..Len(s) : Char(s, i) # " "

\* C3: for an expression X without a space, when(X) returns what
\* when("Item " + X + " changed") returns: a builder with target_type Item,
\* trigger_target X, trigger_type changed and no states, and an application of
\* it attaches the specs the application of the other builder attaches (the
\* same UUIDs drawn for both, so that ids are compared up to their suffix).
C3_SingleWordIsItemChanged ==
    [][(expr' # NULL /\ NoSpace(Val(expr')))
        => LET X == Val(expr')
               long == when("Item " \o X \o " changed", itemRegistry, hasQuartz, 0)
           IN  /\ whenResult' = long.result
               /\ whenResult' = "returned"
               /\ builder'.kind = long.builder.kind
               /\ builder'.target_type = Some("Item")
               /\ builder'.trigger_target = Some(X)
               /\ builder'.trigger_type = Some("changed")
               /\ builder'.old_state = NULL
               /\ builder'.new_state = NULL
               /\ \A slot \in {"target_type", "trigger_target", "trigger_type",
                               "old_state", "new_state"} :
                      builder'[slot] = long.builder[slot]
               /\ (ApplyStep =>
                      LET other == ApplyBuilder(long.builder, itemRegistry,
                                                triggers["f"], uuidCount)
                      IN  /\ triggers'["f"] = other.triggers
                          /\ applyResult' = IF other.thrown THEN "thrown" ELSE "returned")]_vars

\* C3 witness: when("Lamp") was called and its builder applied; one
\* core.ItemStateChangeTrigger for Lamp is attached.
C3_Witness ==
    /\ expr = Some("Lamp")
    /\ lastOp.op = "apply"
    /\ Len(Attached) = 1
    /\ Last.typeUID = "core.ItemStateChangeTrigger"
    /\ Last.configuration = [itemName |-> "Lamp"]

\* C4: an application of the builder of a "Member of G" or "Descendent of G"
\* expression appends as many specs as G has members (direct members for
\* Member of, the members of G and of the groups nested in it for Descendent
\* of), none of them null, and their itemNames are exactly the member names.
C4_GroupFanOut ==
    [][(/\ ApplyStep
        /\ builder.kind = "item_trigger"
        /\ builder.target_type \in {Some("Member of"), Some("Descendent of")})
        => LET G == Val(builder.trigger_target)
               members == IF builder.target_type = Some("Member of")
                          THEN getMembers(itemRegistry, G)
                          ELSE getAllMembers(itemRegistry, G)
               added == (Len(Attached) + 1)..Len(Attached')
           IN  /\ KeepsEarlier
               /\ Len(Attached') = Len(Attached) + Cardinality(members)
               /\ \A i \in added : Attached'[i] # NULL
               /\ {Attached'[i].configuration.itemName : i \in added} = members]_vars

\* C4 witness: the builder of "Descendent of gAll changed" was applied and
\* attached two specs, for Lamp and for Door (the member of the nested gIn).
C4_Witness ==
    /\ expr = Some("Descendent of gAll changed")
    /\ lastOp.op = "apply"
    /\ Len(Attached) = 2
    /\ {Attached[i].configuration.itemName : i \in 1..2} = {"Lamp", "Door"}

\* the triggers of the rules registered so far, one after the other
RECURSIVE RuleTriggers(_)
RuleTriggers(k) ==
    IF k = 0 THEN <<>> ELSE RuleTriggers(k - 1) \o rules[k].triggers

\* every spec built so far: those of the registered rules, then those attached to f
AllSpecs == RuleTriggers(Len(rules)) \o Attached

\* C5: no two specs built by any sequence of when() calls and builder
\* applications, kept on the function or handed to a registered rule, have the
\* same id (the UUIDs drawn being different from one another).
C5_IdsDistinct ==
    \A i, j \in 1..Len(AllSpecs) :
        (i # j /\ AllSpecs[i] # NULL /\ AllSpecs[j] # NULL)
        => AllSpecs[i].id # AllSpecs[j].id

\* C5 witness: two specs of the same type and configuration exist, built by
\* two applications for the same expression, one of them in a registered rule.
C5_Witness ==
    /\ Len(rules) > 0
    /\ \E i, j \in 1..Len(AllSpecs) :
           /\ i < j
           /\ AllSpecs[i] # NULL
           /\ AllSpecs[j] # NULL
           /\ AllSpecs[i].typeUID = AllSpecs[j].typeUID
           /\ AllSpecs[i].configuration = AllSpecs[j].configuration
           /\ AllSpecs[i].id # AllSpecs[j].id

\* the id starts with a letter or digit, holds only characters of
\* [A-Za-z0-9_-] and no two underscores in a row
WellFormed(s) ==
    /\ Len(s) > 0
    /\ Char(s, 1) \in AlnumChars
    /\ \A i \in 1..Len(s) : Char(s, i) \in UidChars
    /\ \A i \in 1..(Len(s) - 1) : ~(Char(s, i) = "_" /\ Char(s, i + 1) = "_")

\* C6: for every uid, missing and empty included, validate_uid(uid) is well
\* formed, and so is validate_uid applied to that result.
C6_ValidateUidWellFormed ==
    /\ uidOut # NULL => WellFormed(Val(uidOut))
    /\ uidOut2 # NULL => WellFormed(Val(uidOut2))

\* C6 witness: validate_uid was applied twice, starting from a uid that begins
\* with an underscore and holds a character outside [A-Za-z0-9_-].
C6_Witness ==
    /\ uidIn # NULL
    /\ Len(Val(uidIn)) = MaxUidLen
    /\ Char(Val(uidIn), 1) = "_"
    /\ \E i \in 1..Len(Val(uidIn)) : Char(Val(uidIn), i) \notin UidChars
    /\ uidOut # NULL
    /\ uidOut2 # NULL
    /\ Val(uidOut2) # Val(uidOut)

C8_TimeCron ==
    [][\A R \in ValidCron :
           expr' = Some("Time cron " \o R)
           => /\ whenResult' = "returned"
              /\ builder'.kind = "cron_trigger"
              /\ (ApplyStep =>
                     /\ AppendsOne
                     /\ Last' # NULL
                     /\ Last'.typeUID = "timer.GenericCronTrigger"
                     /\ Last'.configuration = [cronExpression |-> R])]_vars

\* C8 witness: the builder of a cron expression with two spaces in a row was
\* applied, quartz being present, and the spec carries the expression as given.
C8_Witness ==
    /\ hasQuartz
    /\ expr = Some("Time cron 0  0 12 * * ?")
    /\ lastOp.op = "apply"
    /\ Len(Attached) = 1
    /\ Last.configuration.cronExpression = "0  0 12 * * ?"

\* the entity names of the lifecycle events
LifecycleEvent(entity, K) ==
    entity \o (CASE K = "added" -> "AddedEvent"
                 [] K = "removed" -> "RemovedEvent"
                 [] K = "modified" -> "UpdatedEvent")

\* C9: for "Item K" and "Thing K" with K one of added, removed, modified, the
\* trigger_target branch sets trigger_target to "" and leaves the token K in
\* the list; when() returns, and every application of the builder appends
\* exactly one core.GenericEventTrigger spec for the lifecycle event, with
\* eventSource "openhab/items/" or "openhab/things/".
C9_LifecycleWithoutName ==
    [][\A entity \in {"Item", "Thing"} : \A K \in LifecycleTypes :
           expr' = Some(entity \o " " \o K)
           => LET typed == TargetTypePhase(InitialParseState(entity \o " " \o K))
                  targeted == TriggerTargetPhase(typed)
              IN  /\ typed.input_list = <<K>>
                  /\ targeted.trigger_target = Some("")
                  /\ targeted.input_list = <<K>>
                  /\ whenResult' = "returned"
                  /\ builder'.trigger_target = Some("")
                  /\ builder'.trigger_type = Some(K)
                  /\ (ApplyStep =>
                         /\ AppendsOne
                         /\ Last' # NULL
                         /\ Last'.typeUID = "core.GenericEventTrigger"
                         /\ Last'.configuration
                                = [eventTopic |-> "openhab/*",
                                   eventSource |-> IF entity = "Item"
                                                   THEN "openhab/items/"
                                                   ELSE "openhab/things/",
                                   eventTypes |-> LifecycleEvent(entity, K)])]_vars

\* C9 witness: the builder of "Thing removed" was applied and one
\* core.GenericEventTrigger for ThingRemovedEvent is attached.
C9_Witness ==
    /\ expr = Some("Thing removed")
    /\ lastOp.op = "apply"
    /\ Len(Attached) = 1
    /\ Last.typeUID = "core.GenericEventTrigger"
    /\ Last.configuration.eventTypes = "ThingRemovedEvent"

\* the Thing UIDs of the expressions that the ThingRegistry does not hold
UnknownThings == {t \in ThingTargets : IsThingUID(t) /\ t \notin Things}

\* the expressions "Thing T changed ..." and "Thing T received update ..." for
\* a Thing T the registry does not hold: no status literal, valid ones, or one
\* that is no Thing status
UnknownThingExprs ==
    {<<T, "Thing " \o T \o " changed" \o q>> :
        T \in UnknownThings,
        q \in {"", " from ONLINE", " to OFFLINE", " from ONLINE to OFFLINE", " to BAD"}}
    \cup {<<T, "Thing " \o T \o " received update" \o q>> :
             T \in UnknownThings, q \in {"", " ONLINE", " BAD"}}

StartsWith(s, p) == Len(s) >= Len(p) /\ SubSeq(s, 1, Len(p)) = p

\* e is a Channel expression whose target token is T
ChannelExprFor(e, T) == e = "Channel " \o T \/ StartsWith(e, "Channel " \o T \o " ")

C12_ApplicationsAccumulate ==
    [][ApplyStep => /\ Len(Attached') >= Len(Attached)
                    /\ KeepsEarlier]_vars

\* C12 witness: three applications of builders of three when() calls left
\* a real spec, a null marker and another real spec on the function, in the
\* order of the applications.
C12_Witness ==
    /\ lastOp.op = "apply"
    /\ Len(Attached) = 3
    /\ Attached[1] # NULL
    /\ Attached[2] = NULL
    /\ Attached[3] # NULL
    /\ Attached[1].id # Attached[3].id

\* e consists of the words w, or of the words w followed by further tokens
HasWords(e, w) == e = w \/ StartsWith(e, w \o " ")

\* the Item names of the expressions that the Item registry does not hold
UnknownItems == ItemTargets \ itemRegistry

\* C13: for an Item, Member of or Descendent of expression with changed,
\* received update or received command whose target is not in the Item
\* registry, when() returns bad_trigger and only null markers are attached.
C13_UnknownItemIsPoison ==
    expr # NULL =>
        \A tt \in ItemTargetTypes, T \in UnknownItems,
           trigger \in {"changed", "received update", "received command"} :
            HasWords(Val(expr), tt \o " " \o T \o " " \o trigger)
            => /\ whenResult = "returned"
               /\ builder.kind = "bad_trigger"
               /\ \A i \in 1..Len(Attached) : Attached[i] = NULL

\* C14: for a Member of or Descendent of expression, if the target is an Item
\* of the registry that is not of type Group, when() returns bad_trigger and
\* only null markers are attached; a builder other than bad_trigger is
\* returned only for a target of the registry whose type is Group, and it is
\* item_trigger.
C14_GroupTargetMustBeGroup ==
    expr # NULL =>
        \A tt \in {"Member of", "Descendent of"}, T \in ItemTargets :
            HasWords(Val(expr), tt \o " " \o T)
            => /\ (T \in itemRegistry /\ ItemType(T) # "Group")
                  => /\ whenResult = "returned"
                     /\ builder.kind = "bad_trigger"
                     /\ \A i \in 1..Len(Attached) : Attached[i] = NULL
               /\ (whenResult = "returned" /\ builder.kind # "bad_trigger")
                  => /\ T \in itemRegistry
                     /\ ItemType(T) = "Group"
                     /\ builder.kind = "item_trigger"

\* C14 witness: the builder of "Member of Lamp received update ON", Lamp being
\* a Switch, was applied; the warning says Lamp is not a group and a null marker
\* is attached.
C14_Witness ==
    /\ expr = Some("Member of Lamp received update ON")
    /\ lastOp.op = "apply"
    /\ warned = Some("when: 'Member of Lamp received update ON' could not be parsed because "
                     \o "'Member of' was specified, but 'Lamp' is not a group")
    /\ Attached = <<NULL>>

\* C15: for "Item T received command C" with T an Item of the registry, if C
\* parses as a command of T then when() returns the item builder and every
\* spec it attaches is a core.ItemCommandTrigger with itemName T and command C;
\* if C does not parse, when() returns bad_trigger.
C15_ReceivedCommand ==
    \A T \in itemRegistry, C \in {"ON", "OPEN", "BAD", "REFRESH"} :
        expr = Some("Item " \o T \o " received command " \o C)
        => /\ whenResult = "returned"
           /\ IF C \in AcceptedCommands(T)
              THEN /\ builder.kind = "item_trigger"
                   /\ \A i \in 1..Len(Attached) :
                          /\ Attached[i] # NULL
                          /\ Attached[i].typeUID = "core.ItemCommandTrigger"
                          /\ Attached[i].configuration = [itemName |-> T, command |-> C]
              ELSE builder.kind = "bad_trigger"

\* C16: for a Thing T of the registry and Thing statuses A and B, when() returns
\* the thing builder for "Thing T changed from A to B" and for "Thing T
\* received update B"; every spec the first attaches is a
\* core.ThingStatusChangeTrigger with thingUID T, previousStatus A and status
\* B, every spec the second attaches a core.ThingStatusUpdateTrigger with
\* thingUID T and status B.
C16_ThingStatus ==
    \A T \in Things, A \in ThingStatusValues, B \in ThingStatusValues :
        /\ expr = Some("Thing " \o T \o " changed from " \o A \o " to " \o B)
           => /\ whenResult = "returned"
              /\ builder.kind = "thing_trigger"
              /\ \A i \in 1..Len(Attached) :
                     /\ Attached[i] # NULL
                     /\ Attached[i].typeUID = "core.ThingStatusChangeTrigger"
                     /\ Attached[i].configuration
                            = [thingUID |-> T, previousStatus |-> A, status |-> B]
        /\ expr = Some("Thing " \o T \o " received update " \o B)
           => /\ whenResult = "returned"
              /\ builder.kind = "thing_trigger"
              /\ \A i \in 1..Len(Attached) :
                     /\ Attached[i] # NULL
                     /\ Attached[i].typeUID = "core.ThingStatusUpdateTrigger"
                     /\ Attached[i].configuration = [thingUID |-> T, status |-> B]

\* C17: for an expression that starts with the token System and has further
\* tokens, when() returns; for "System started" it returns the system builder,
\* and each application appends exactly one core.SystemStartlevelTrigger spec
\* with startlevel 20; for every other such expression it returns bad_trigger,
\* and each application appends one null marker.
C17_OnlySystemStarted ==
    [][(expr' # NULL /\ StartsWith(Val(expr'), "System "))
        => /\ whenResult' = "returned"
           /\ IF expr' = Some("System started")
              THEN /\ builder'.kind = "system_trigger"
                   /\ (ApplyStep =>
                          /\ AppendsOne
                          /\ Last' # NULL
                          /\ Last'.typeUID = "core.SystemStartlevelTrigger"
                          /\ Last'.configuration = [startlevel |-> 20])
              ELSE /\ builder'.kind = "bad_trigger"
                   /\ (ApplyStep => Attached' = Append(Attached, NULL))]_vars

\* C17 witness: the builder of "System started" was applied twice and two
\* startlevel specs are attached; no warning was logged.
C17_Witness ==
    /\ expr = Some("System started")
    /\ lastOp.op = "apply"
    /\ warned = NULL
    /\ Len(Attached) = 2
    /\ Attached[1].configuration.startlevel = StartLevelRules
    /\ Attached[2].typeUID = "core.SystemStartlevelTrigger"

\* the state literals of the expressions
StateTokens == {"ON", "OFF", "OPEN", "CLOSED", "BAD"}

\* the builder when() returned is kind, and what is attached fits it: only
\* null markers for bad_trigger, only real specs otherwise
ReturnedBuilder(kind) ==
    /\ whenResult = "returned"
    /\ builder.kind = kind
    /\ \A i \in 1..Len(Attached) : (Attached[i] = NULL) <=> (kind = "bad_trigger")

\* the builder an Item expression must get when all its states parse, or not
ItemBuilderIf(allParse) == ReturnedBuilder(IF allParse THEN "item_trigger" ELSE "bad_trigger")

\* C18: for an Item T of the registry, "Item T changed" with from A, to B or
\* both (in either order) and "Item T received update B" get bad_trigger when a
\* given state does not parse for T, and item_trigger when every given state
\* parses.
C18_ItemStatesMustParse ==
    \A T \in itemRegistry, A \in StateTokens, B \in StateTokens :
        LET okA == A \in AcceptedStates(T)
            okB == B \in AcceptedStates(T)
            head == "Item " \o T
        IN  /\ expr = Some(head \o " changed from " \o A) => ItemBuilderIf(okA)
            /\ expr = Some(head \o " changed to " \o B) => ItemBuilderIf(okB)
            /\ expr = Some(head \o " changed from " \o A \o " to " \o B)
               => ItemBuilderIf(okA /\ okB)
            /\ expr = Some(head \o " changed to " \o B \o " from " \o A)
               => ItemBuilderIf(okA /\ okB)
            /\ expr = Some(head \o " received update " \o B) => ItemBuilderIf(okB)

\* C18 witness: the builder of "Item Lamp changed from ON to BAD" was applied;
\* the warning names the state BAD and a null marker is attached.
C18_Witness ==
    /\ expr = Some("Item Lamp changed from ON to BAD")
    /\ lastOp.op = "apply"
    /\ warned = Some("when: 'Item Lamp changed from ON to BAD' could not be parsed because "
                     \o "'BAD' is not a valid state for 'Lamp'")
    /\ Attached = <<NULL>>

\* a host call inside a condition of the validation throws a Java exception
\* for the expression e, the parse loop having raised nothing
RaisesJavaException(e) ==
    LET ps == Parse(e, hasQuartz)
    IN  IF ps.error # NULL THEN FALSE
        ELSE Validate(e, ps, itemRegistry).kind = "JavaException"

\* C19: when an error other than a RangeError is raised inside when() (a
\* registry lookup that throws during validation), when() gives the stack
\* trace to LOG.error and throws; it returns no builder, bad_trigger included,
\* logs no warning, and nothing is attached.
C19_OtherErrorsAreRethrown ==
    (expr # NULL /\ RaisesJavaException(Val(expr)))
    => /\ whenResult = "thrown"
       /\ builder = NULL
       /\ errored
       /\ warned = NULL
       /\ triggers["f"] = NULL

\* C19 witness: when("Member of Ghost changed") was called, Ghost being no Item
\* of the registry; the call threw after logging the error.
C19_Witness ==
    /\ expr = Some("Member of Ghost changed")
    /\ lastOp.op = "when"
    /\ whenResult = "thrown"
    /\ errored

\* the type codes of the specs
TypeCodes ==
    {"core.ItemStateChangeTrigger", "core.ItemStateUpdateTrigger", "core.ItemCommandTrigger",
     "core.GenericEventTrigger", "core.ThingStatusChangeTrigger",
     "core.ThingStatusUpdateTrigger", "core.ChannelEventTrigger",
     "timer.GenericCronTrigger", "core.SystemStartlevelTrigger"}

\* the type codes a spec may have for a target_type and a trigger_type
TypeCodesFor(target_type, trigger_type) ==
    IF target_type \in ItemTargetTypes
    THEN CASE trigger_type = "received update" -> {"core.ItemStateUpdateTrigger"}
           [] trigger_type = "received command" -> {"core.ItemCommandTrigger"}
           [] trigger_type = "changed" -> {"core.ItemStateChangeTrigger"}
           [] OTHER -> {"core.GenericEventTrigger"}
    ELSE CASE target_type = "Channel" -> {"core.ChannelEventTrigger"}
           [] target_type = "Time" -> {"timer.GenericCronTrigger"}
           [] target_type = "System" -> {"core.SystemStartlevelTrigger"}
           [] OTHER -> {"core.GenericEventTrigger", "core.ThingStatusChangeTrigger",
                        "core.ThingStatusUpdateTrigger"}

\* C20: every non-null spec attached by the builder when() returned has one of
\* the nine type codes, and the one that belongs to the target_type and
\* trigger_type of the expression: ItemStateUpdateTrigger for received update,
\* ItemCommandTrigger for received command and ItemStateChangeTrigger for
\* changed on Item, Member of and Descendent of; ChannelEventTrigger for
\* Channel, GenericCronTrigger for Time, SystemStartlevelTrigger for System.
C20_TypeCodeBySlots ==
    \A i \in 1..Len(Attached) :
        Attached[i] # NULL
        => /\ Attached[i].typeUID \in TypeCodes
           /\ Attached[i].typeUID
                  \in TypeCodesFor(Val(builder.target_type), Str(builder.trigger_type))

\* C20 witness: the builder of a Member of expression with received update
\* attached two core.ItemStateUpdateTrigger specs.
C20_Witness ==
    /\ expr = Some("Member of gAll received update ON")
    /\ lastOp.op = "apply"
    /\ Len(Attached) = 2
    /\ \A i \in 1..2 : Attached[i].typeUID = "core.ItemStateUpdateTrigger"

\* C21: when a script passes an explicit trigger name next to the expression
\* and when() returns a real builder, the id of the spec the builder will
\* produce is derived from that name: the sanitized name followed by the
\* UUID suffix, not the sanitized expression.
C21_ExplicitTriggerName ==
    (/\ lastOp.op = "when"
     /\ whenResult = "returned"
     /\ builder.kind # "bad_trigger")
    => \E n \in 0..MaxUuid :
           builder.trigger_name = Some(validate_uid(Some(lastOp.name), n))

\* the last add_item call was handed a first argument that is neither a
\* string nor an Item, or a name without an item_type
AddItemMisused(op) ==
    /\ op.op = "add_item"
    /\ \/ op.arg.kind \notin {"string", "Item"}
       \/ op.arg.kind = "string" /\ Falsy(op.item_type)

\* C22: a call of add_item whose first argument is neither a string nor an
\* Item, or is a string while item_type is not provided, throws a TypeError
\* to its caller and leaves the provider as it was.
C22_AddItemThrowsTypeError ==
    [][AddItemMisused(lastOp')
       => /\ returned'.result = "thrown"
          /\ returned'.value = Some("TypeError")
          /\ provider' = provider]_vars

\* C23: validate_channel_uid returns null when the registry holds no Channel
\* of the given ChannelUID or the argument is neither a string nor a
\* ChannelUID, and returns the ChannelUID when the registry holds the Channel.
C23_ValidateChannelUid ==
    (lastOp.op = "validate_channel_uid" /\ returned.result = "returned")
    => returned.value = IF /\ lastOp.arg.kind \in {"string", "ChannelUID"}
                           /\ lastOp.arg.uid \in Channels
                        THEN Some(lastOp.arg.uid)
                        ELSE NULL

\* the step is a call of set_metadata on a namespace that holds Metadata
SetsHeld(overwrite) ==
    /\ lastOp'.op = "set_metadata"
    /\ lastOp'.overwrite = overwrite
    /\ metadata[lastOp'.arg] # NULL

\* C24: set_metadata with overwrite false on a namespace that exists leaves
\* the namespace with the existing configuration overlaid by the provided
\* one (existing keys not provided keep their values, provided keys take the
\* provided values) and with the provided value, or the existing value when
\* none is given; with overwrite true the namespace is left with the provided
\* configuration only, no earlier key surviving.
C24_SetMetadataOverlays ==
    [][LET ns == lastOp'.arg
           given == lastOp'.configuration.entries
           old == Val(metadata[ns])
           new == Val(metadata'[ns])
       IN  /\ SetsHeld(FALSE)
              => /\ metadata'[ns] # NULL
                 /\ DOMAIN new.configuration = DOMAIN old.configuration \cup DOMAIN given
                 /\ \A key \in DOMAIN given : new.configuration[key] = given[key]
                 /\ \A key \in DOMAIN old.configuration \ DOMAIN given :
                        new.configuration[key] = old.configuration[key]
                 /\ new.value = IF lastOp'.value = NULL THEN old.value ELSE lastOp'.value
           /\ SetsHeld(TRUE)
              => /\ metadata'[ns] # NULL
                 /\ new.configuration = given]_vars

\* the trigger_type keywords
Keywords == TriggerPhrases \ {"sometimes"}

\* the target types a keyword may be used with
PermittedTargetTypes(keyword) ==
    IF keyword \in {"received update", "changed"}
    THEN {"Item", "Thing", "Member of", "Descendent of"}
    ELSE IF keyword = "received command" THEN {"Item", "Member of", "Descendent of"}
    ELSE IF keyword = "triggered" THEN {"Channel"}
    ELSE {"Item", "Thing"}

\* the targets named in the expressions of the model
AllTargets ==
    ItemTargets \cup ThingTargets \cup ChannelTargets \cup {"started", "cron", "noon"}

\* e names target_type, one target, and then the keyword
UsesKeyword(e, target_type, keyword) ==
    \E target \in AllTargets :
        HasWords(e, target_type \o " " \o target \o " " \o keyword)

\* C25: a keyword used after a target of a target_type it is not permitted
\* for makes when() return bad_trigger, and a real builder whose trigger_type
\* is a keyword has a target_type the keyword is permitted for.
C25_KeywordByTargetType ==
    \A keyword \in Keywords :
        /\ \A target_type \in ValidTargetTypes \ PermittedTargetTypes(keyword) :
               (expr # NULL /\ UsesKeyword(Val(expr), target_type, keyword))
               => (whenResult = "returned" /\ builder.kind = "bad_trigger")
        /\ (/\ whenResult = "returned"
            /\ builder.kind # "bad_trigger"
            /\ builder.trigger_type = Some(keyword))
           => Val(builder.target_type) \in PermittedTargetTypes(keyword)

\* C26: the lifecycle keywords are tried before the cron branch, so for an
\* Item named "cron" the expressions "Item cron added", "Item cron removed"
\* and "Item cron modified" parse to target_type Item, trigger_target "cron"
\* and the keyword as trigger_type, and when() returns the lifecycle-event
\* builder for them.
C26_KeywordsBeforeCron ==
    \A K \in LifecycleTypes :
        expr = Some("Item cron " \o K)
        => /\ whenResult = "returned"
           /\ builder.kind = "item_event_trigger"
           /\ builder.target_type = Some("Item")
           /\ builder.trigger_target = Some("cron")
           /\ builder.trigger_type = Some(K)

\* the ways the tokens "keyword state" of a changed qualifier read in the
\* expression: nothing when the slot is null; for the empty state the keyword
\* at the end of the expression, or the keyword followed by an empty token
QualifierTexts(keyword, state) ==
    IF state = NULL THEN {""}
    ELSE IF Val(state) = "" THEN {" " \o keyword, " " \o keyword \o " "}
    ELSE {" " \o keyword \o " " \o Val(state)}

\* the expressions whose tokens are exactly those held by the five slots of
\* the closure b
Renderings(b) ==
    LET targets == IF b.trigger_target = NULL THEN {""}
                   ELSE IF Val(b.trigger_target) = "" THEN {"", " "}
                   ELSE {" " \o Val(b.trigger_target)}
        type == IF b.trigger_type = NULL THEN "" ELSE " " \o Val(b.trigger_type)
        qualifiers ==
            IF b.trigger_type = Some("changed")
            THEN {f \o t : f \in QualifierTexts("from", b.old_state),
                           t \in QualifierTexts("to", b.new_state)}
                 \cup {t \o f : f \in QualifierTexts("from", b.old_state),
                                t \in QualifierTexts("to", b.new_state)}
            ELSE IF b.old_state # NULL THEN {}
            ELSE IF b.new_state = NULL THEN {""}
            ELSE {" " \o Val(b.new_state)}
    IN  {Val(b.target_type) \o target \o type \o q : target \in targets, q \in qualifiers}
        \cup (IF /\ b.target_type = Some("Item")
                 /\ b.trigger_type = Some("changed")
                 /\ b.old_state = NULL
                 /\ b.new_state = NULL
                 /\ NoSpace(Val(b.trigger_target))
              THEN {Val(b.trigger_target)}
              ELSE {})

\* expressions with a token that fits no slot: a second value, a word after
\* both states, a second from, and any qualifier after a lifecycle keyword
LeftoverExprs ==
    {tt \o " " \o target \o " " \o trigger \o q :
        tt \in ItemTargetTypes, target \in ItemTargets, trigger \in TriggerPhrases,
        q \in {" ON OFF", " from ON to OFF now", " from ON from OFF"}}
    \cup {tt \o " " \o target \o " " \o trigger \o q :
            tt \in ItemTargetTypes, target \in ItemTargets, trigger \in LifecycleTypes,
            q \in ItemQualifiers \ {""}}
    \cup {"Thing " \o target \o " " \o trigger \o " ONLINE now" :
            target \in ThingTargets, trigger \in TriggerPhrases}
    \cup {"Thing " \o target \o " " \o trigger \o q :
            target \in ThingTargets, trigger \in LifecycleTypes,
            q \in ThingQualifiers \ {""}}
    \cup {"Channel " \o target \o " triggered START STOP" : target \in ChannelTargets}

\* C27: when() returns a real builder only for an expression whose tokens
\* were all consumed into the slots of the closure, and for an expression with
\* a token left over when no qualifier rule applies it returns bad_trigger.
C27_LeftoverIsPoison ==
    /\ (whenResult = "returned" /\ builder.kind # "bad_trigger")
       => Val(expr) \in Renderings(builder)
    /\ (expr # NULL /\ Val(expr) \in LeftoverExprs)
       => (whenResult = "returned" /\ builder.kind = "bad_trigger")

\* C27 witness: bad_trigger was returned, after the trigger_type was set, for
\* an expression with a second "from", with a qualifier after "added", or
\* with a second bare value.
C27_Witness ==
    /\ expr \in {Some("Item Lamp changed from ON from OFF"), Some("Item Lamp added ON"),
                  Some("Item Lamp received update ON OFF")}
    /\ whenResult = "returned"
    /\ builder.kind = "bad_trigger"
    /\ builder.trigger_type # NULL

\* the five slots of the parser, and their position in the filling order
Slots == {"target_type", "trigger_target", "trigger_type", "old_state", "new_state"}

SlotRank(slot) ==
    IF slot = "target_type" THEN 1
    ELSE IF slot = "trigger_target" THEN 2
    ELSE IF slot = "trigger_type" THEN 3
    ELSE 4

\* the slots that are set in the parser state ps
SlotsSet(ps) == {slot \in Slots : ps[slot] # NULL}

\* C28: in every state of the parse loop the slots that are set are a prefix
\* of the order target_type, trigger_target, trigger_type, {old_state,
\* new_state}; an iteration sets slots of one rank only, never of a rank below
\* one already set, and leaves every slot that was set with the value it had.
C28_SlotsFilledOnceInOrder ==
    [][/\ parser' # NULL
          => \A slot \in SlotsSet(parser') :
                 \A before \in Slots :
                     SlotRank(before) < SlotRank(slot) => before \in SlotsSet(parser')
       /\ (parser # NULL /\ parser' # NULL)
          => /\ \A slot \in SlotsSet(parser) : parser'[slot] = parser[slot]
             /\ \A new \in SlotsSet(parser') \ SlotsSet(parser) :
                    /\ \A old \in SlotsSet(parser) : SlotRank(old) <= SlotRank(new)
                    /\ \A other \in SlotsSet(parser') \ SlotsSet(parser) :
                           SlotRank(other) = SlotRank(new)]_vars

\* C28 witness: the loop met a second "from" with old_state set; old_state
\* kept the first value and the iteration raised the error.
C28_Witness ==
    /\ expr = Some("Item Lamp changed from ON from OFF")
    /\ parser # NULL
    /\ parser.old_state = Some("ON")
    /\ parser.new_state = NULL
    /\ parser.input_list = <<"from", "OFF">>
    /\ parser.error # NULL

\* the token is a word
NonEmpty(token) == token # ""

\* the expression e with every run of spaces reduced to one space and the
\* spaces at its ends removed: its non-empty words joined by single spaces
Normalized(e) == join(SelectSeq(split(e), NonEmpty), " ")

\* C29: the tokens of an expression are its non-empty words, so when() gives
\* an expression with extra spaces between words or at its ends the outcome,
\* the builder and the slots it gives the same words separated by single
\* spaces; "Item  Lamp  changed" parses as "Item Lamp changed" does.
C29_ExtraSpacesIgnored ==
    expr # NULL
    => LET r == when(Normalized(Val(expr)), itemRegistry, hasQuartz, 0)
       IN  /\ whenResult = r.result
           /\ whenResult = "returned"
              => /\ builder.kind = r.builder.kind
                 /\ \A slot \in Slots : builder[slot] = r.builder[slot]

\* the Items the builder of the closure resolves its target to in the
\* registry reg, in the order it attaches their specs
Resolved(b, reg) ==
    IF b.target_type = Some("Member of")
    THEN FromSet(getMembers(reg, Val(b.trigger_target)), 1)
    ELSE IF b.target_type = Some("Descendent of")
    THEN FromSet(getAllMembers(reg, Val(b.trigger_target)), 1)
    ELSE <<Val(b.trigger_target)>>

\* the step attaches to f one spec for each Item of the sequence items, in
\* that order, after the entries f had
AttachesFor(items) ==
    /\ applyResult' = "returned"
    /\ KeepsEarlier
    /\ Len(Attached') = Len(Attached) + Len(items)
    /\ \A i \in 1..Len(items) :
           /\ Attached'[Len(Attached) + i] # NULL
           /\ Attached'[Len(Attached) + i].configuration.itemName = items[i]

\* C30 as stated: the registry cannot change between the validation of the
\* target in when() and its resolution, so the application of the item
\* builder of an expression whose target when() found in the registry does
\* not fail and attaches specs for the member set the registry held when
\* when() validated the expression.
C30_ValidatedIsResolved ==
    [][(/\ ApplyStep
        /\ builder.kind = "item_trigger"
        /\ Val(builder.trigger_target) \in ItemNames)
       => AttachesFor(Resolved(builder, ItemNames))]_vars

\* C30: when() validates the target against the registry as it is during the
\* call, and the item builder it returns resolves the target and its member
\* set in the registry as it is when the builder is applied: the application
\* throws and attaches nothing when the registry no longer holds the target,
\* and otherwise attaches one spec for each member the registry holds then.
C30_ResolvedAtApplication ==
    [][(ApplyStep /\ builder.kind = "item_trigger")
       => IF Val(builder.trigger_target) \in itemRegistry
          THEN AttachesFor(Resolved(builder, itemRegistry))
          ELSE applyResult' = "thrown" /\ Attached' = Attached]_vars

\* C30 witness: the builder of "Member of gAll changed" was applied after
\* the host removed Lamp, and attached a spec for gIn only.
C30_Witness ==
    /\ expr = Some("Member of gAll changed")
    /\ lastOp.op = "apply"
    /\ "Lamp" \notin itemRegistry
    /\ applyResult = "returned"
    /\ Len(Attached) = 1
    /\ Attached[1].configuration.itemName = "gIn"

\* C31: an application of a real builder, one that is not bad_trigger and
\* whose Item target the registry holds, returns and leaves the triggers list
\* of the function longer than it was, every new entry being a spec and not
\* the null marker; also for Member of and Descendent of targets.
C31_RealBuilderAttaches ==
    [][(/\ ApplyStep
        /\ builder.kind # "bad_trigger"
        /\ builder.kind = "item_trigger" => Val(builder.trigger_target) \in itemRegistry)
       => /\ applyResult' = "returned"
          /\ KeepsEarlier
          /\ Len(Attached') > Len(Attached)
          /\ \A i \in (Len(Attached) + 1)..Len(Attached') : Attached'[i] # NULL]_vars

\* the string s contains the string p
Includes(s, p) == \E i \in 0..(Len(s) - Len(p)) : SubSeq(s, i + 1, i + Len(p)) = p

\* the message reports a keyword that the target_type does not permit
KeywordNotPermitted(message) ==
    \E keyword \in Keywords \cup {"cron"} :
        Includes(message, "'" \o keyword \o "' is invalid for target_type")

\* C32: every message when() reports for a RangeError quotes the expression
\* it was given, and a message about a keyword that the target_type does not
\* permit names, after the keyword, the target_type that was parsed.
C32_ErrorsNameExpressionAndType ==
    (whenResult = "returned" /\ warned # NULL)
    => /\ Includes(Val(warned), "'" \o Val(expr) \o "'")
       /\ KeywordNotPermitted(Val(warned))
          => Includes(Val(warned), "target_type '" \o Str(builder.target_type) \o "'")

\* the targets of the Item and Thing expressions, in the registries or not
EntityTargets(entity) == IF entity = "Item" THEN ItemTargets ELSE ThingTargets

\* C33: for "Item T K" and "Thing T K" with K one of added, removed,
\* modified, whether or not the registry holds T, when() returns the
\* lifecycle-event builder, and every application of it appends exactly one
\* core.GenericEventTrigger spec with eventTopic "openhab/*", eventSource
\* "openhab/items/T/" or "openhab/things/T/", and the event type of K.
C33_LifecycleWithName ==
    [][\A entity \in {"Item", "Thing"} : \A K \in LifecycleTypes :
           \A T \in EntityTargets(entity) :
               expr' = Some(entity \o " " \o T \o " " \o K)
               => /\ whenResult' = "returned"
                  /\ builder'.kind = IF entity = "Item" THEN "item_event_trigger"
                                     ELSE "thing_event_trigger"
                  /\ (ApplyStep =>
                         /\ AppendsOne
                         /\ Last' # NULL
                         /\ Last'.typeUID = "core.GenericEventTrigger"
                         /\ Last'.configuration
                                = [eventTopic |-> "openhab/*",
                                   eventSource |-> IF entity = "Item"
                                                   THEN "openhab/items/" \o T \o "/"
                                                   ELSE "openhab/things/" \o T \o "/",
                                   eventTypes |-> LifecycleEvent(entity, K)])]_vars

\* the tokens left plus the slots still unset in the parser state ps
Measure(ps) == Len(ps.input_list) + Cardinality(Slots \ SlotsSet(ps))

\* the parse loop of the call in progress has ended
LoopEnded ==
    /\ parser # NULL
    /\ \/ Len(split(Val(expr))) <= 1
       \/ Len(parser.input_list) = 0
       \/ parser.error # NULL

\* C34: every iteration of the parse loop removes a token, fills an unset
\* slot or raises an error, so that without an error the tokens left plus
\* the unset slots decrease with every iteration; and the loop of every
\* when() call that was entered ends.
C34_ParseLoopTerminates ==
    /\ [][lastOp'.op = "iteration"
          => /\ \/ Len(parser'.input_list) < Len(parser.input_list)
                \/ SlotsSet(parser) # SlotsSet(parser') /\ SlotsSet(parser) \subseteq SlotsSet(parser')
                \/ parser.error = NULL /\ parser'.error # NULL
             /\ parser'.error = NULL => Measure(parser') < Measure(parser)]_vars
    /\ (parser # NULL) ~> LoopEnded

\* C34 witness: an iteration filled trigger_target without removing a token
\* ("Item added"), and the loop went on to its end.
C34_Witness ==
    /\ expr = Some("Item added")
    /\ lastOp.op = "iteration"
    /\ parser.trigger_target = Some("")
    /\ parser.trigger_type = Some("added")
    /\ LoopEnded

\* the positions of the null markers in the triggers list of f
MarkerPositions == {i \in 1..Len(Attached) : Attached[i] = NULL}

\* C35: from a state in which the triggers list of f holds a null marker,
\* every step (a when() call, an application, a rule() call, a decoration)
\* leaves every marker at its position in the list, registers no rule and
\* leaves f.UID as it was; a failed decoration changes nothing in the list.
C35_MarkerIsPermanent ==
    [][/\ MarkerPositions # {}
          => /\ MarkerPositions \subseteq {i \in 1..Len(Attached') : Attached'[i] = NULL}
             /\ rules' = rules
             /\ UID' = UID
       /\ (lastOp'.op = "decorate" /\ ruleResult' = "null") => triggers' = triggers]_vars

\* C35 witness: a marker was attached first, two more applications and a
\* decoration followed; the marker is still first in the list, the last entry
\* is a real spec, the decoration returned null and no rule exists.
C35_Witness ==
    /\ lastOp.op = "decorate"
    /\ ruleResult = "null"
    /\ Len(Attached) = 3
    /\ Attached[1] = NULL
    /\ Attached[3] # NULL
    /\ rules = <<>>

\* the ids of the specs in the list l
IdsOf(l) == {l[i].id : i \in 1..Len(l)}

\* C36: a decoration of f that succeeds registers one more rule, whose
\* triggers are the list f held, none of them in a rule registered before;
\* it sets f.UID to that rule's UID and f.triggers to null. A decoration of f
\* while f.triggers is null registers nothing and returns null, and an
\* application to f while f.triggers is null leaves no entry of an earlier
\* registration in the list.
C36_RegistrationResetsTriggers ==
    [][/\ (lastOp'.op = "decorate" /\ ruleResult' = "object")
          => /\ Len(rules') = Len(rules) + 1
             /\ SubSeq(rules', 1, Len(rules)) = rules
             /\ rules'[Len(rules')].triggers = Attached
             /\ IdsOf(Attached) \cap IdsOf(RuleTriggers(Len(rules))) = {}
             /\ UID'["f"] = Some(RuleUID(Len(rules')))
             /\ triggers'["f"] = NULL
       /\ (lastOp'.op = "decorate" /\ triggers["f"] = NULL)
          => /\ ruleResult' = "null"
             /\ rules' = rules
             /\ UID' = UID
             /\ triggers' = triggers
       /\ (ApplyStep /\ triggers["f"] = NULL)
          => \A i \in 1..Len(Attached') :
                 Attached'[i] # NULL
                 => Attached'[i].id \notin IdsOf(RuleTriggers(Len(rules)))]_vars

\* C36 witness: f was registered twice; the second rule holds only specs that
\* are not in the first, f.UID is the second rule's UID and f.triggers is null.
C36_Witness ==
    /\ lastOp.op = "decorate"
    /\ ruleResult = "object"
    /\ Len(rules) = 2
    /\ rules[1].callback = "f"
    /\ rules[2].callback = "f"
    /\ IdsOf(rules[1].triggers) \cap IdsOf(rules[2].triggers) = {}
    /\ UID["f"] = Some(RuleUID(2))
    /\ triggers["f"] = NULL

\* C37: in scripts that obtain every decorator from rule() with no name,
\* every registered rule bears the name of the function it was registered
\* from, to whichever functions the decorator was applied before.
C37_OwnNamePerFunction ==
    \A k \in 1..Len(rules) : rules[k].name = rules[k].callback

\* the expression e ends in the token w
EndsWithToken(e, w) ==
    Len(e) > Len(w) /\ SubSeq(e, Len(e) - Len(w), Len(e)) = " " \o w

\* C38: when(expr) for a "changed" expression that ends in a bare "from" or
\* "to" returns the builder that attaches the null marker, for every target
\* type, and no spec attached to the function has the empty string under
\* previousState, state, previousStatus or status.
C38_QualifierNeedsState ==
    /\ (/\ whenResult = "returned"
        /\ Includes(Val(expr), " changed ")
        /\ EndsWithToken(Val(expr), "from") \/ EndsWithToken(Val(expr), "to"))
       => builder.kind = "bad_trigger"
    /\ \A i \in 1..Len(Attached) :
           Attached[i] # NULL
           => \A key \in DOMAIN Attached[i].configuration
                       \cap {"previousState", "state", "previousStatus", "status"} :
                  Attached[i].configuration[key] # ""

\* the service is recorded in the table under the interface name
Recorded(service, name) ==
    /\ name \in DOMAIN REGISTERED_SERVICES.entries
    /\ REGISTERED_SERVICES.entries[name].service = service

\* the service has a record in the table
HasRecord(service) ==
    \E name \in DOMAIN REGISTERED_SERVICES.entries : Recorded(service, name)

\* the bundle context holds a registration of the service
RegisteredWithBundle(service) == \E h \in bundleContext : h.service = service

\* C39: register_service with properties omitted returns the registration
\* the bundle context made and leaves the service recorded under every
\* interface name; unregister_service returns and leaves no record of the
\* service and no registration of it with the bundle context.
C39_RegisterThenUnregister ==
    /\ (lastOp.op = "register_service" /\ lastOp.properties = NULL)
       => /\ returned.result = "returned"
          /\ Val(returned.value) \in bundleContext
          /\ Val(returned.value).service = lastOp.arg
          /\ \A i \in 1..Len(lastOp.interface_names) :
                 Recorded(lastOp.arg, lastOp.interface_names[i])
    /\ lastOp.op = "unregister_service"
       => /\ returned.result = "returned"
          /\ ~HasRecord(lastOp.arg)
          /\ ~RegisteredWithBundle(lastOp.arg)

====
